---------------------------- MODULE Spec2Model ----------------------------
(***************************************************************************)
(* A model of the scriptyscript interpreter: the AST -> bytecode           *)
(* translator, the State (a stack of call frames, each with an operand     *)
(* stack, a local map and a parent pointer) and the tree-walking executor  *)
(* with its control-flow signals.                                          *)
(*                                                                         *)
(* The executor is a set of nested Rust calls.  The model keeps that       *)
(* nesting as an explicit stack `ctl` of activation records, one record    *)
(* per live Rust call (run_execution_layer, execute_if_statement,          *)
(* execute_for_loop, execute_while_loop, execute_infinite_loop,            *)
(* execute_function_call, execute), and `sig` as the ControlFlow value a   *)
(* callee has just handed back to the record on top of `ctl`.              *)
(***************************************************************************)
EXTENDS Integers, Sequences, FiniteSets, TLC

VARIABLES frames, heap, ctl, sig, status, out, session, cur, last

vars == <<frames, heap, ctl, sig, status, out, session, cur, last>>

(***************************************************************************)
(* Bounds of the model.                                                    *)
(***************************************************************************)
MaxInt == 2
MaxIter == 2
MaxNest == 2
MaxDepth == 2
\* The width of i64 and u64 in the model, in bits.
IntBits == 4

(***************************************************************************)
(* f64.  A float is modelled by the exact rational num/den in lowest terms *)
(* with den > 0, and the values that are not finite by den = 0: 1/0 is     *)
(* +inf, -1/0 is -inf and 0/0 is NaN.  Rounding and the sign of zero are   *)
(* left out.                                                               *)
(***************************************************************************)
Abs(x) == IF x < 0 THEN -x ELSE x
Sign(x) == IF x < 0 THEN -1 ELSE IF x > 0 THEN 1 ELSE 0

RECURSIVE GCD(_, _)
GCD(a, b) == IF b = 0 THEN a ELSE GCD(b, a % b)

\* i64 division truncates toward zero.
TruncDiv(a, b) ==
    IF (a < 0) = (b < 0) THEN Abs(a) \div Abs(b) ELSE -(Abs(a) \div Abs(b))

\* The f64 that is n/d; d = 0 gives +inf, -inf or NaN by the sign of n.
f64(n, d) ==
    IF d = 0 THEN [num |-> Sign(n), den |-> 0]
    ELSE LET g == GCD(Abs(n), Abs(d))
         IN  [num |-> Sign(d) * (n \div g), den |-> Abs(d) \div g]

NaN == f64(0, 0)
is_nan(f) == f.num = 0 /\ f.den = 0
is_infinite(f) == f.num # 0 /\ f.den = 0

\* `i as f64`
as_f64(i) == f64(i, 1)

\* impl Add, Sub, Mul, Div, Rem for f64 (IEEE 754).
f64_neg(a) == [num |-> -a.num, den |-> a.den]
f64_add(a, b) ==
    IF is_nan(a) \/ is_nan(b) THEN NaN
    ELSE IF is_infinite(a) /\ is_infinite(b) THEN (IF a = b THEN a ELSE NaN)
    ELSE IF is_infinite(a) THEN a
    ELSE IF is_infinite(b) THEN b
    ELSE f64(a.num * b.den + b.num * a.den, a.den * b.den)
f64_mul(a, b) == f64(a.num * b.num, a.den * b.den)
f64_div(a, b) ==
    f64_mul(a, f64(IF b.num = 0 THEN b.den ELSE Sign(b.num) * b.den, Abs(b.num)))
f64_rem(a, b) ==
    IF is_nan(a) \/ is_nan(b) \/ is_infinite(a) \/ b.num = 0 THEN NaN
    ELSE IF is_infinite(b) THEN a
    ELSE LET q == TruncDiv(a.num * b.den, a.den * b.num)
         IN  f64_add(a, f64_neg(f64_mul(b, f64(q, 1))))

\* impl PartialOrd for f64: a < b; every comparison with NaN is false.
f64_lt(a, b) ==
    /\ ~is_nan(a)
    /\ ~is_nan(b)
    /\ IF a.den = 0 /\ b.den = 0 THEN a.num < b.num
       ELSE a.num * b.den < b.num * a.den
f64_eq(a, b) == ~is_nan(a) /\ a = b

(***************************************************************************)
(* Values (runtime/types).  An Object is a shared cell                     *)
(* (Arc<Mutex<ObjectInner>>) holding a Primitive or a Function.  The       *)
(* constructors below give the contents; Object_new puts contents into a   *)
(* new cell by adding the field `cell`, the identity of the cell.  Cloning *)
(* an Object copies the record, `cell` included: both copies are the same  *)
(* cell.                                                                   *)
(***************************************************************************)
nil == [k |-> "Nil"]
int(x) == [k |-> "Integer", i |-> x]
float(f) == [k |-> "Float", num |-> f.num, den |-> f.den]
string(s) == [k |-> "String", s |-> s]
boolean(b) == [k |-> "Boolean", b |-> b]
table == [k |-> "Table"]
scripted_function(bytecode) == [k |-> "Scripted", bytecode |-> bytecode]
wrapped_function(f) == [k |-> "Wrapped", f |-> f]

PrimitiveKinds == {"Nil", "Integer", "Float", "String", "Boolean"}
FunctionKinds == {"Scripted", "Wrapped"}
NumericKinds == {"Integer", "Float"}

\* ObjectInner::value: the contents of the cell `o`.
Object_value(o) == [x \in (DOMAIN o) \ {"cell"} |-> o[x]]

\* Object::as_primitive: Some(p) exactly for primitive contents.
as_primitive(o) == o.k \in PrimitiveKinds

\* Object::as_bool: Some(b) exactly for a Boolean primitive.
as_bool(o) == o.k = "Boolean"

(***************************************************************************)
(* Option<T>: None is the empty sequence, Some(x) the one-element one.     *)
(***************************************************************************)
None == <<>>
Some(x) == <<x>>
is_some(o) == Len(o) = 1
unwrap(o) == o[1]

(***************************************************************************)
(* OpCode (runtime/bytecode.rs).  A Bytecode is a sequence of OpCodes.     *)
(***************************************************************************)
Load(name) == [op |-> "Load", name |-> name]
GetKey(key) == [op |-> "GetKey", key |-> key]
SetKey(key) == [op |-> "SetKey", key |-> key]
Store(name) == [op |-> "Store", name |-> name]
PushNil == [op |-> "PushNil"]
PushString(s) == [op |-> "PushString", s |-> s]
PushInteger(x) == [op |-> "PushInteger", i |-> x]
PushFloat(f) == [op |-> "PushFloat", f |-> f]
PushBool(b) == [op |-> "PushBool", b |-> b]
PushFunction(bytecode) == [op |-> "PushFunction", bytecode |-> bytecode]
BinaryOperation(kind) == [op |-> "BinaryOperation", kind |-> kind]
UnaryOperation(kind) == [op |-> "UnaryOperation", kind |-> kind]
Call(n) == [op |-> "Call", n |-> n]
Return(n) == [op |-> "Return", n |-> n]
Break == [op |-> "Break"]
Continue == [op |-> "Continue"]
If(condition, body, else_body) ==
    [op |-> "If", condition |-> condition, body |-> body, else_body |-> else_body]
For(initialization, condition, increment, body) ==
    [op |-> "For", initialization |-> initialization, condition |-> condition,
     increment |-> increment, body |-> body]
While(condition, body) == [op |-> "While", condition |-> condition, body |-> body]
Loop(body) == [op |-> "Loop", body |-> body]

(***************************************************************************)
(* AstNode (compiler/ast.rs).                                              *)
(***************************************************************************)
AstIdentifier(s) == [node |-> "Identifier", identifier |-> s]
AstNumberLiteral(x) == [node |-> "NumberLiteral", i |-> x]
AstFloatLiteral(f) == [node |-> "NumberLiteral", f |-> f]
AstStringLiteral(s) == [node |-> "StringLiteral", s |-> s]
AstBooleanLiteral(b) == [node |-> "BooleanLiteral", b |-> b]
AstNilLiteral == [node |-> "NilLiteral"]
AstFunctionCall(identifier, args) ==
    [node |-> "FunctionCall", identifier |-> identifier, args |-> args]
AstFunctionDef(args, body) == [node |-> "FunctionDef", args |-> args, body |-> body]
AstUnaryOperation(kind, operand) ==
    [node |-> "UnaryOperation", kind |-> kind, operand |-> operand]
AstBinaryOperation(kind, left, right) ==
    [node |-> "BinaryOperation", kind |-> kind, left |-> left, right |-> right]
AstAssignment(identifier, value) ==
    [node |-> "Assignment", identifier |-> identifier, value |-> value]
AstReturn(value) == [node |-> "Return", value |-> value]
AstBreak == [node |-> "Break"]
AstContinue == [node |-> "Continue"]
AstIf(condition, body, else_body) ==
    [node |-> "If", condition |-> condition, body |-> body, else_body |-> else_body]
AstFor(initialization, condition, increment, body) ==
    [node |-> "For", initialization |-> initialization, condition |-> condition,
     increment |-> increment, body |-> body]
AstWhile(condition, body) == [node |-> "While", condition |-> condition, body |-> body]
AstLoop(body) == [node |-> "Loop", body |-> body]
AstBlock(nodes) == [node |-> "Block", nodes |-> nodes]

(***************************************************************************)
(* The parser (compiler/parser.rs), for if statements.  The pairs of an if *)
(* statement or of an elseif clause are its condition, its body and, at    *)
(* most, one clause that continues it: [rule, inner], where the inner of   *)
(* an elseif clause are pairs again and the inner of an else clause are    *)
(* its statements.  Conditions and statements stand here as parsed.        *)
(***************************************************************************)
RECURSIVE if_pairs(_, _)
\* The pairs the grammar yields for
\*   if c1 { b1 } elseif c2 { b2 } ... (else { statements })?
\* `clauses` being <<c1, b1>>, <<c2, b2>>, ...: each elseif clause holds the
\* rest of the chain.
if_pairs(clauses, else_statements) ==
    Head(clauses)
        \o (IF Len(clauses) > 1
            THEN <<[rule |-> "elseif_clause",
                    inner |-> if_pairs(Tail(clauses), else_statements)]>>
            ELSE IF is_some(else_statements)
            THEN <<[rule |-> "else_clause", inner |-> unwrap(else_statements)]>>
            ELSE <<>>)

RECURSIVE parse_if(_)
\* parse_if: the else body of the node is the if node parsed from an elseif
\* clause, or the statements of an else clause.
parse_if(pairs) ==
    AstIf(pairs[1], pairs[2],
          IF Len(pairs) < 3 THEN None
          ELSE IF pairs[3].rule = "elseif_clause"
          THEN Some(parse_if(pairs[3].inner))
          ELSE Some(pairs[3].inner))

(***************************************************************************)
(* The translator (compiler/translator.rs).                                *)
(***************************************************************************)
\* A prologue that stores the parameters last-declared first.
PrologueStoresReversed(args) ==
    [i \in 1..Len(args) |-> Store(args[Len(args) + 1 - i])]

\* translate_node, FunctionDef: one Store per formal parameter, emitted in
\* the order the parameters are declared, ahead of the translated body.
PrologueStores(args) == [i \in 1..Len(args) |-> Store(args[i])]

\* The place in a translation at which the conversion of an operation kind
\* runs todo!(): the translator panics there and yields no bytecode.
Todo == [op |-> "Todo"]

\* impl From<BinaryOperationKind> for OpCode / From<UnaryOperationKind>:
\* every binary kind but Power has an opcode, and of the unary kinds only
\* Negate has one.
FromBinaryOperationKind(kind) == IF kind = "Power" THEN Todo ELSE BinaryOperation(kind)
FromUnaryOperationKind(kind) == IF kind = "Negate" THEN UnaryOperation(kind) ELSE Todo

\* The arms of the live translator that the translator source does not
\* carry: NilLiteral, Break, Continue, While and Loop.
translate_nil == <<PushNil>>
translate_break == <<Break>>
translate_continue == <<Continue>>
translate_while(condition, body) == <<While(condition, body)>>
translate_loop(body) == <<Loop(body)>>

RECURSIVE translate_node(_)
RECURSIVE translate_nodes(_)

\* The concatenation of the translations of a list of nodes, in order.
translate_nodes(nodes) ==
    IF Len(nodes) = 0 THEN <<>>
    ELSE translate_node(Head(nodes)) \o translate_nodes(Tail(nodes))

\* A translation that evaluates the arguments of a call and the operands
\* of a binary operation from right to left.
translate_node_right_to_left(ast) ==
    CASE ast.node = "Block" -> translate_nodes(ast.nodes)
      [] ast.node = "Assignment" ->
            translate_node(ast.value) \o <<Store(ast.identifier)>>
      [] ast.node = "FunctionCall" ->
            translate_nodes([i \in 1..Len(ast.args) |-> ast.args[Len(ast.args) + 1 - i]])
                \o <<Load(ast.identifier), Call(Len(ast.args))>>
      [] ast.node = "FunctionDef" ->
            <<PushFunction(PrologueStores(ast.args) \o translate_node(ast.body))>>
      [] ast.node = "Return" ->
            IF is_some(ast.value)
            THEN translate_node(unwrap(ast.value)) \o <<Return(1)>>
            ELSE <<Return(0)>>
      [] ast.node = "If" ->
            <<If(translate_node(ast.condition), translate_node(ast.body),
                 IF is_some(ast.else_body)
                 THEN Some(translate_node(unwrap(ast.else_body))) ELSE None)>>
      [] ast.node = "For" ->
            <<For(IF is_some(ast.initialization)
                  THEN Some(translate_node(unwrap(ast.initialization))) ELSE None,
                  IF is_some(ast.condition)
                  THEN Some(translate_node(unwrap(ast.condition))) ELSE None,
                  IF is_some(ast.increment)
                  THEN Some(translate_node(unwrap(ast.increment))) ELSE None,
                  translate_node(ast.body))>>
      [] ast.node = "BinaryOperation" ->
            translate_node(ast.right) \o translate_node(ast.left)
                \o <<FromBinaryOperationKind(ast.kind)>>
      [] ast.node = "UnaryOperation" ->
            translate_node(ast.operand) \o <<FromUnaryOperationKind(ast.kind)>>
      [] ast.node = "Identifier" -> <<Load(ast.identifier)>>
      [] ast.node = "NumberLiteral" ->
            IF "i" \in DOMAIN ast THEN <<PushInteger(ast.i)>> ELSE <<PushFloat(ast.f)>>
      [] ast.node = "StringLiteral" -> <<PushString(ast.s)>>
      [] ast.node = "BooleanLiteral" -> <<PushBool(ast.b)>>
      [] ast.node = "NilLiteral" -> translate_nil
      [] ast.node = "Break" -> translate_break
      [] ast.node = "Continue" -> translate_continue
      [] ast.node = "While" ->
            translate_while(translate_node(ast.condition), translate_node(ast.body))
      [] ast.node = "Loop" -> translate_loop(translate_node(ast.body))

\* A translation under which `and` and `or` short-circuit: the right operand
\* is the body (for `and`) or the else body (for `or`) of an If on the left
\* operand.
translate_node_short_circuit(ast) ==
    CASE ast.node = "Block" -> translate_nodes(ast.nodes)
      [] ast.node = "Assignment" ->
            translate_node(ast.value) \o <<Store(ast.identifier)>>
      [] ast.node = "FunctionCall" ->
            translate_nodes(ast.args)
                \o <<Load(ast.identifier), Call(Len(ast.args))>>
      [] ast.node = "FunctionDef" ->
            <<PushFunction(PrologueStores(ast.args) \o translate_node(ast.body))>>
      [] ast.node = "Return" ->
            IF is_some(ast.value)
            THEN translate_node(unwrap(ast.value)) \o <<Return(1)>>
            ELSE <<Return(0)>>
      [] ast.node = "If" ->
            <<If(translate_node(ast.condition), translate_node(ast.body),
                 IF is_some(ast.else_body)
                 THEN Some(translate_node(unwrap(ast.else_body))) ELSE None)>>
      [] ast.node = "For" ->
            <<For(IF is_some(ast.initialization)
                  THEN Some(translate_node(unwrap(ast.initialization))) ELSE None,
                  IF is_some(ast.condition)
                  THEN Some(translate_node(unwrap(ast.condition))) ELSE None,
                  IF is_some(ast.increment)
                  THEN Some(translate_node(unwrap(ast.increment))) ELSE None,
                  translate_node(ast.body))>>
      [] ast.node = "BinaryOperation" ->
            IF ast.kind = "And"
            THEN <<If(translate_node(ast.left), translate_node(ast.right),
                      Some(<<PushBool(FALSE)>>))>>
            ELSE IF ast.kind = "Or"
            THEN <<If(translate_node(ast.left), <<PushBool(TRUE)>>,
                      Some(translate_node(ast.right)))>>
            ELSE translate_node(ast.left) \o translate_node(ast.right)
                    \o <<FromBinaryOperationKind(ast.kind)>>
      [] ast.node = "UnaryOperation" ->
            translate_node(ast.operand) \o <<FromUnaryOperationKind(ast.kind)>>
      [] ast.node = "Identifier" -> <<Load(ast.identifier)>>
      [] ast.node = "NumberLiteral" ->
            IF "i" \in DOMAIN ast THEN <<PushInteger(ast.i)>> ELSE <<PushFloat(ast.f)>>
      [] ast.node = "StringLiteral" -> <<PushString(ast.s)>>
      [] ast.node = "BooleanLiteral" -> <<PushBool(ast.b)>>
      [] ast.node = "NilLiteral" -> translate_nil
      [] ast.node = "Break" -> translate_break
      [] ast.node = "Continue" -> translate_continue
      [] ast.node = "While" ->
            translate_while(translate_node(ast.condition), translate_node(ast.body))
      [] ast.node = "Loop" -> translate_loop(translate_node(ast.body))

\* translate_node (compiler/translator.rs).
translate_node(ast) ==
    CASE ast.node = "Block" -> translate_nodes(ast.nodes)
      [] ast.node = "Assignment" ->
            translate_node(ast.value) \o <<Store(ast.identifier)>>
      [] ast.node = "FunctionCall" ->
            translate_nodes(ast.args)
                \o <<Load(ast.identifier), Call(Len(ast.args))>>
      [] ast.node = "FunctionDef" ->
            <<PushFunction(PrologueStores(ast.args) \o translate_node(ast.body))>>
      [] ast.node = "Return" ->
            IF is_some(ast.value)
            THEN translate_node(unwrap(ast.value)) \o <<Return(1)>>
            ELSE <<Return(0)>>
      [] ast.node = "If" ->
            <<If(translate_node(ast.condition), translate_node(ast.body),
                 IF is_some(ast.else_body)
                 THEN Some(translate_node(unwrap(ast.else_body))) ELSE None)>>
      [] ast.node = "For" ->
            <<For(IF is_some(ast.initialization)
                  THEN Some(translate_node(unwrap(ast.initialization))) ELSE None,
                  IF is_some(ast.condition)
                  THEN Some(translate_node(unwrap(ast.condition))) ELSE None,
                  IF is_some(ast.increment)
                  THEN Some(translate_node(unwrap(ast.increment))) ELSE None,
                  translate_node(ast.body))>>
      [] ast.node = "BinaryOperation" ->
            translate_node(ast.left) \o translate_node(ast.right)
                \o <<FromBinaryOperationKind(ast.kind)>>
      [] ast.node = "UnaryOperation" ->
            translate_node(ast.operand) \o <<FromUnaryOperationKind(ast.kind)>>
      [] ast.node = "Identifier" -> <<Load(ast.identifier)>>
      [] ast.node = "NumberLiteral" ->
            IF "i" \in DOMAIN ast THEN <<PushInteger(ast.i)>> ELSE <<PushFloat(ast.f)>>
      [] ast.node = "StringLiteral" -> <<PushString(ast.s)>>
      [] ast.node = "BooleanLiteral" -> <<PushBool(ast.b)>>
      [] ast.node = "NilLiteral" -> translate_nil
      [] ast.node = "Break" -> translate_break
      [] ast.node = "Continue" -> translate_continue
      [] ast.node = "While" ->
            translate_while(translate_node(ast.condition), translate_node(ast.body))
      [] ast.node = "Loop" -> translate_loop(translate_node(ast.body))

\* compile (compiler/mod.rs), for a source that parses to `ast`.
compile(ast) == translate_node(ast)

\* The source texts the scripts hand to exec.
ExecTexts == {"x = 1;", "t = s;", "print(s);", "r = s == s;", "5;", "return 2;", "("}

\* parser::parse (compiler/parser.rs) on these texts: the Block of the
\* statements, or None for the Err of a text that has no parse.
parse(text) ==
    CASE text = "x = 1;" -> Some(AstBlock(<<AstAssignment("x", AstNumberLiteral(1))>>))
      [] text = "t = s;" -> Some(AstBlock(<<AstAssignment("t", AstIdentifier("s"))>>))
      [] text = "print(s);" ->
            Some(AstBlock(<<AstFunctionCall("print", <<AstIdentifier("s")>>)>>))
      [] text = "r = s == s;" ->
            Some(AstBlock(<<AstAssignment("r",
                AstBinaryOperation("Equal", AstIdentifier("s"), AstIdentifier("s")))>>))
      [] text = "5;" -> Some(AstBlock(<<AstNumberLiteral(5)>>))
      [] text = "return 2;" -> Some(AstBlock(<<AstReturn(Some(AstNumberLiteral(2)))>>))
      [] text = "(" -> None

\* The text of the error compile returns for a text that has no parse.
ParseErrorText == "syntax error"

\* The translation that produced `code` has run todo!() somewhere, at any
\* depth of the nested bytecode.
RECURSIVE translation_panics(_)
translation_panics(code) ==
    \E i \in DOMAIN code :
        LET o == code[i]
            inside(b) == is_some(b) /\ translation_panics(unwrap(b))
        IN  CASE o.op = "Todo" -> TRUE
              [] o.op = "PushFunction" -> translation_panics(o.bytecode)
              [] o.op = "If" ->
                    \/ translation_panics(o.condition)
                    \/ translation_panics(o.body)
                    \/ inside(o.else_body)
              [] o.op = "For" ->
                    \/ inside(o.initialization)
                    \/ inside(o.condition)
                    \/ inside(o.increment)
                    \/ translation_panics(o.body)
              [] o.op = "While" ->
                    translation_panics(o.condition) \/ translation_panics(o.body)
              [] o.op = "Loop" -> translation_panics(o.body)
              [] OTHER -> FALSE

(***************************************************************************)
(* CallFrame and State (runtime/state.rs).  `fs` is State.stack; the last  *)
(* element is the current frame.  A parent pointer is the stack index of   *)
(* the parent frame, 0 for no parent.                                      *)
(***************************************************************************)
EmptyLocals == [name \in {} |-> nil]

\* CallFrame::new
CallFrame_new == [parent |-> 0, operands |-> <<>>, locals |-> EmptyLocals]

\* CallFrame::with_parent
with_parent(parent) == [CallFrame_new EXCEPT !.parent = parent]

\* A push whose new frame has the global frame for its parent.
push_frame_under_global(fs) ==
    Append(fs, IF Len(fs) > 0 THEN with_parent(1) ELSE CallFrame_new)

\* A push whose new frame has no parent.
push_frame_without_parent(fs) == Append(fs, CallFrame_new)

\* State::push_frame: the parent of the new frame is the current frame.
push_frame(fs) ==
    Append(fs, IF Len(fs) > 0 THEN with_parent(Len(fs)) ELSE CallFrame_new)

\* A pop that leaves the popped frame's locals behind in the frame below.
pop_frame_leaking(fs) ==
    LET top == fs[Len(fs)]
        kept == SubSeq(fs, 1, Len(fs) - 1)
    IN  [kept EXCEPT ![Len(kept)].locals =
            [x \in (DOMAIN @) \cup (DOMAIN top.locals) |->
                IF x \in DOMAIN top.locals THEN top.locals[x] ELSE @[x]]]

\* A pop that leaves the frame on the stack.
pop_frame_keeping(fs) == fs

\* State::pop_frame
pop_frame(fs) == SubSeq(fs, 1, Len(fs) - 1)

\* State::operand_stack_size
operand_stack_size(fs) == Len(fs[Len(fs)].operands)

\* State::push / CallFrame::push
push(fs, object) == [fs EXCEPT ![Len(fs)].operands = Append(@, object)]

\* State::push_all: pushes in the order given, the last one ends on top.
push_all(fs, objects) == [fs EXCEPT ![Len(fs)].operands = @ \o objects]

\* State::peek / CallFrame::peek, for a non-empty operand stack.
peek(fs) == fs[Len(fs)].operands[operand_stack_size(fs)]

\* The state State::pop leaves behind (the value it returns is peek).
pop(fs) ==
    [fs EXCEPT ![Len(fs)].operands = SubSeq(@, 1, Len(@) - 1)]

\* State::pop_n: the values in the order popped, the former top first.
pop_n(fs, n) ==
    [i \in 1..n |-> fs[Len(fs)].operands[operand_stack_size(fs) - i + 1]]

\* The state State::pop_n leaves behind.
drop_n(fs, n) ==
    [fs EXCEPT ![Len(fs)].operands = SubSeq(@, 1, Len(@) - n)]

\* Table::new
Table_new == [key \in {} |-> nil]

\* The cells referenced from the frames' operand stacks and locals.
Cells(fs) ==
    UNION {{fs[i].operands[j].cell : j \in DOMAIN fs[i].operands}
           \cup {fs[i].locals[x].cell : x \in DOMAIN fs[i].locals} :
           i \in DOMAIN fs}

\* The table cells and the cells referenced from the tables.
TableCells ==
    DOMAIN heap
    \cup UNION {{heap[c][key].cell : key \in DOMAIN heap[c]} : c \in DOMAIN heap}

\* The cells that calls of exec in progress keep locked: exec locks the cell
\* of its argument and holds the guard until it returns.
Held == {ctl[i].object.cell : i \in {j \in DOMAIN ctl : ctl[j].kind = "exec"}}

\* Arc::new: a cell no live reference points to (an allocator may hand
\* out again the address of a cell that was freed).
Fresh(live) == CHOOSE c \in 1..(Cardinality(live) + 1) :
                  /\ c \notin live
                  /\ \A d \in 1..(c - 1) : d \in live

\* The Object that is the cell `c` holding `value`.
Object_in(c, value) ==
    [x \in (DOMAIN value) \cup {"cell"} |-> IF x = "cell" THEN c ELSE value[x]]

\* Object::new: a new cell holding `value`.
Object_new(fs, value) == Object_in(Fresh(Cells(fs) \cup TableCells \cup Held), value)

\* Object::set_key on a table cell: Table::set under the cell's lock.
set_key(h, table_obj, key, value) ==
    [h EXCEPT ![table_obj.cell] = [x \in (DOMAIN @) \cup {key} |->
                                      IF x = key THEN value ELSE @[x]]]

\* Object::get_key on a table cell: a clone of the Object stored at the
\* key, if any.
get_key(h, table_obj, key) ==
    IF key \in DOMAIN h[table_obj.cell] THEN Some(h[table_obj.cell][key]) ELSE None

\* HashMap::insert on a local map.
insert(locals, name, value) ==
    [x \in (DOMAIN locals) \cup {name} |-> IF x = name THEN value ELSE locals[x]]

\* State::set_global: writes into the bottom-most frame.
set_global(fs, name, obj) == [fs EXCEPT ![1].locals = insert(@, name, obj)]

\* CallFrame::store_local on frame i (its operand stack is not empty).
CallFrame_store_local(fs, i, name) ==
    [fs EXCEPT ![i].operands = SubSeq(@, 1, Len(@) - 1),
               ![i].locals = insert(@, name, fs[i].operands[Len(fs[i].operands)])]

RECURSIVE ChainOf(_, _)
\* The frames reached from frame i by following parent pointers, frame i
\* first.
ChainOf(fs, i) == IF i = 0 THEN <<>> ELSE <<i>> \o ChainOf(fs, fs[i].parent)

\* The positions in the current frame's chain whose frame binds `name`.
Binders(fs, name) ==
    {j \in DOMAIN ChainOf(fs, Len(fs)) :
        name \in DOMAIN fs[ChainOf(fs, Len(fs))[j]].locals}
Nearest(S) == CHOOSE x \in S : \A y \in S : x <= y
Farthest(S) == CHOOSE x \in S : \A y \in S : x >= y

\* A store that assigns to the nearest frame already binding the name, and
\* to the current frame only when none does.
store_nearest_binding(fs, name) ==
    LET top == Len(fs)
        value == fs[top].operands[Len(fs[top].operands)]
        popped == [fs EXCEPT ![top].operands = SubSeq(@, 1, Len(@) - 1)]
        target == IF Binders(fs, name) = {} THEN top
                  ELSE ChainOf(fs, top)[Nearest(Binders(fs, name))]
    IN  [popped EXCEPT ![target].locals = insert(@, name, value)]

\* State::store_local: on the current frame.
store_local(fs, name) == CallFrame_store_local(fs, Len(fs), name)

RECURSIVE CallFrame_load(_, _, _)
\* CallFrame::load on frame i: a local is pushed; otherwise the parent
\* loads the name onto its own operand stack, and that value is popped
\* from the parent and pushed here; with no parent, nil is pushed.
CallFrame_load(fs, i, name) ==
    IF name \in DOMAIN fs[i].locals
    THEN [fs EXCEPT ![i].operands = Append(@, fs[i].locals[name])]
    ELSE IF fs[i].parent # 0
    THEN LET p == fs[i].parent
             loaded == CallFrame_load(fs, p, name)
             x == loaded[p].operands[Len(loaded[p].operands)]
         IN  [loaded EXCEPT ![p].operands = SubSeq(@, 1, Len(@) - 1),
                            ![i].operands = Append(@, x)]
    ELSE [fs EXCEPT ![i].operands = Append(@, Object_new(fs, nil))]

\* A load that takes the outermost binding of the chain instead of the
\* nearest.
load_outermost_binding(fs, name) ==
    [fs EXCEPT ![Len(fs)].operands =
        Append(@, IF Binders(fs, name) = {} THEN Object_new(fs, nil)
                  ELSE fs[ChainOf(fs, Len(fs))[Farthest(Binders(fs, name))]].locals[name])]

\* A load that leaves on the parent's operand stack the value the parent
\* loaded for the current frame.
load_leaving_in_parent(fs, name) ==
    LET i == Len(fs)
        loaded == CallFrame_load(fs, i, name)
    IN  IF name \notin DOMAIN fs[i].locals /\ fs[i].parent # 0
        THEN [loaded EXCEPT ![fs[i].parent].operands =
                                Append(@, loaded[i].operands[Len(loaded[i].operands)])]
        ELSE loaded

\* State::load: on the current frame.
load(fs, name) == CallFrame_load(fs, Len(fs), name)

(***************************************************************************)
(* Operations on values (runtime/types/primitive.rs, operations.rs).       *)
(* An operation yields [fatal |-> FALSE, v |-> the pushed value] or        *)
(* [fatal |-> TRUE] where the code panics.                                 *)
(***************************************************************************)
Pushed(v) == [fatal |-> FALSE, v |-> v]
Fatal == [fatal |-> TRUE]

\* i64 remainder: the sign of the dividend.
TruncRem(a, b) == a - b * TruncDiv(a, b)

ArithmeticKinds == {"Add", "Subtract", "Multiply", "Divide", "Remainder"}
ComparisonKinds == {"GreaterThan", "GreaterThanOrEqual", "LessThan", "LessThanOrEqual"}

\* The f64 of a numeric primitive: a Float as it is, an Integer `as f64`.
promote(p) == IF p.k = "Integer" THEN as_f64(p.i) ELSE [num |-> p.num, den |-> p.den]

\* Arithmetic on primitives that does not promote an Integer met by a
\* Float: only like kinds combine.
primitive_op_unpromoted(kind, a, b) ==
    IF a.k = "Integer" /\ b.k = "Integer"
    THEN Pushed(Some(int(IF kind = "Add" THEN a.i + b.i
                         ELSE IF kind = "Subtract" THEN a.i - b.i
                         ELSE IF kind = "Multiply" THEN a.i * b.i
                         ELSE 0)))
    ELSE IF a.k = "Float" /\ b.k = "Float"
    THEN Pushed(Some(float(f64_add([num |-> a.num, den |-> a.den],
                                   [num |-> b.num, den |-> b.den]))))
    ELSE IF kind = "Add" /\ a.k = "String" /\ b.k = "String"
    THEN Pushed(Some(string(a.s \o b.s)))
    ELSE Pushed(None)

\* impl Add/Sub/Mul/Div/Rem for Primitive: Some(result) or None, and a
\* panic on integer division by zero.
primitive_op(kind, a, b) ==
    IF a.k = "Integer" /\ b.k = "Integer"
    THEN CASE kind = "Add" -> Pushed(Some(int(a.i + b.i)))
           [] kind = "Subtract" -> Pushed(Some(int(a.i - b.i)))
           [] kind = "Multiply" -> Pushed(Some(int(a.i * b.i)))
           [] kind = "Divide" ->
                IF b.i = 0 THEN Fatal ELSE Pushed(Some(int(TruncDiv(a.i, b.i))))
           [] kind = "Remainder" ->
                IF b.i = 0 THEN Fatal ELSE Pushed(Some(int(TruncRem(a.i, b.i))))
    ELSE IF a.k \in NumericKinds /\ b.k \in NumericKinds
    THEN LET x == promote(a)
             y == promote(b)
         IN  CASE kind = "Add" -> Pushed(Some(float(f64_add(x, y))))
               [] kind = "Subtract" -> Pushed(Some(float(f64_add(x, f64_neg(y)))))
               [] kind = "Multiply" -> Pushed(Some(float(f64_mul(x, y))))
               [] kind = "Divide" -> Pushed(Some(float(f64_div(x, y))))
               [] kind = "Remainder" -> Pushed(Some(float(f64_rem(x, y))))
    ELSE IF kind = "Add" /\ a.k = "String" /\ b.k = "String"
    THEN Pushed(Some(string(a.s \o b.s)))
    ELSE Pushed(None)

\* An arithmetic that turns a failing primitive operation into nil.
binary_arithmetic_forgiving(kind, lhs, rhs) ==
    IF as_primitive(lhs) /\ as_primitive(rhs)
    THEN LET result == primitive_op(kind, lhs, rhs)
         IN  IF ~result.fatal /\ is_some(result.v) THEN Pushed(unwrap(result.v))
             ELSE Pushed(nil)
    ELSE Fatal

\* arithmetic::binary_arithmetic
binary_arithmetic(kind, lhs, rhs) ==
    IF as_primitive(lhs) /\ as_primitive(rhs)
    THEN LET result == primitive_op(kind, lhs, rhs)
         IN  IF result.fatal THEN Fatal
             ELSE IF is_some(result.v) THEN Pushed(unwrap(result.v))
             ELSE Pushed(nil)
    ELSE Fatal

\* arithmetic::negate
negate(obj) ==
    IF obj.k = "Integer" THEN Pushed(int(-obj.i))
    ELSE IF obj.k = "Float" THEN Pushed(float(f64_neg(promote(obj))))
    ELSE Pushed(nil)

\* An equality of primitives that promotes an integer to compare it with
\* a float.
Primitive_eq_promoting(a, b) ==
    IF a.k \in NumericKinds /\ b.k \in NumericKinds /\ a.k # b.k
    THEN f64_eq(promote(a), promote(b))
    ELSE /\ a.k = b.k
         /\ CASE a.k = "Nil" -> TRUE
              [] a.k = "Integer" -> a.i = b.i
              [] a.k = "Float" -> f64_eq(promote(a), promote(b))
              [] a.k = "String" -> a.s = b.s
              [] a.k = "Boolean" -> a.b = b.b

\* impl PartialEq for Primitive
Primitive_eq(a, b) ==
    /\ a.k = b.k
    /\ CASE a.k = "Nil" -> TRUE
         [] a.k = "Integer" -> a.i = b.i
         [] a.k = "Float" -> f64_eq(promote(a), promote(b))
         [] a.k = "String" -> a.s = b.s
         [] a.k = "Boolean" -> a.b = b.b

\* impl PartialEq for Function: scripted functions by their bytecode,
\* wrapped ones by the function they point to.
Function_eq(a, b) ==
    /\ a.k = b.k
    /\ IF a.k = "Scripted" THEN a.bytecode = b.bytecode ELSE a.f = b.f

RECURSIVE contents_eq(_, _)
\* The match of comparison::equals and of impl PartialEq for Object over
\* the two contents; tables compare as HashMaps: the same keys, and equal
\* Objects at each key.
contents_eq(a, b) ==
    IF as_primitive(a) /\ as_primitive(b) THEN Primitive_eq(a, b)
    ELSE IF a.k \in FunctionKinds /\ b.k \in FunctionKinds THEN Function_eq(a, b)
    ELSE IF a.k = "Table" /\ b.k = "Table"
    THEN /\ DOMAIN heap[a.cell] = DOMAIN heap[b.cell]
         /\ \A key \in DOMAIN heap[a.cell] :
                contents_eq(heap[a.cell][key], heap[b.cell][key])
    ELSE FALSE

\* Two tables of the same size hold one and the same cell at some key:
\* impl PartialEq for Object locks that cell twice when the comparison of
\* the tables comes to the key.
SharedEntry(a, b) ==
    /\ a.k = "Table"
    /\ b.k = "Table"
    /\ Cardinality(DOMAIN heap[a.cell]) = Cardinality(DOMAIN heap[b.cell])
    /\ \E key \in DOMAIN heap[a.cell] \cap DOMAIN heap[b.cell] :
          heap[a.cell][key].cell = heap[b.cell][key].cell

\* The comparison of two tables can end, unequal, at a key it comes to
\* before any shared entry (a HashMap is walked in no fixed order).
EndsBeforeSharedEntry(a, b) ==
    \E key \in DOMAIN heap[a.cell] :
        \/ key \notin DOMAIN heap[b.cell]
        \/ /\ heap[a.cell][key].cell # heap[b.cell][key].cell
           /\ ~contents_eq(heap[a.cell][key], heap[b.cell][key])

\* comparison::equals, once both cells are locked.
equals(a, b) == Pushed(boolean(contents_eq(a, b)))

\* comparison::not_equals, once both cells are locked.
not_equals(a, b) ==
    IF \/ as_primitive(a) /\ as_primitive(b)
       \/ a.k \in FunctionKinds /\ b.k \in FunctionKinds
       \/ a.k = "Table" /\ b.k = "Table"
    THEN Pushed(boolean(~contents_eq(a, b)))
    ELSE Pushed(boolean(TRUE))

\* comparison::greater_than, less_than, greater_than_or_equal,
\* less_than_or_equal
compare(kind, lhs, rhs) ==
    IF lhs.k = "Integer" /\ rhs.k = "Integer"
    THEN CASE kind = "GreaterThan" -> Pushed(boolean(lhs.i > rhs.i))
           [] kind = "GreaterThanOrEqual" -> Pushed(boolean(lhs.i >= rhs.i))
           [] kind = "LessThan" -> Pushed(boolean(lhs.i < rhs.i))
           [] kind = "LessThanOrEqual" -> Pushed(boolean(lhs.i <= rhs.i))
    ELSE IF lhs.k \in NumericKinds /\ rhs.k \in NumericKinds
    THEN LET x == promote(lhs)
             y == promote(rhs)
         IN  CASE kind = "GreaterThan" -> Pushed(boolean(f64_lt(y, x)))
               [] kind = "GreaterThanOrEqual" ->
                    Pushed(boolean(f64_lt(y, x) \/ f64_eq(x, y)))
               [] kind = "LessThan" -> Pushed(boolean(f64_lt(x, y)))
               [] kind = "LessThanOrEqual" ->
                    Pushed(boolean(f64_lt(x, y) \/ f64_eq(x, y)))
    ELSE Fatal

\* Logical operators that take nil and false for false and every other
\* value for true.
logical_coercing(kind, lhs, rhs) ==
    LET truth(o) == IF o.k = "Boolean" THEN o.b ELSE o.k # "Nil"
    IN  Pushed(boolean(IF kind = "And" THEN truth(lhs) /\ truth(rhs)
                       ELSE truth(lhs) \/ truth(rhs)))

\* logical::and / logical::or
logical(kind, lhs, rhs) ==
    IF as_bool(lhs) /\ as_bool(rhs)
    THEN Pushed(boolean(IF kind = "And" THEN lhs.b /\ rhs.b ELSE lhs.b \/ rhs.b))
    ELSE Fatal

\* The dispatch of execute_binary_operation on the kind.
binary_operation(kind, left, right) ==
    CASE kind \in ArithmeticKinds -> binary_arithmetic(kind, left, right)
      [] kind = "Equal" -> equals(left, right)
      [] kind = "NotEqual" -> not_equals(left, right)
      [] kind \in ComparisonKinds -> compare(kind, left, right)
      [] kind \in {"And", "Or"} -> logical(kind, left, right)
      [] OTHER -> Fatal

\* The dispatch of execute_unary_operation on the kind.
unary_operation(kind, operand) ==
    IF kind = "Negate" THEN negate(operand) ELSE Fatal

(***************************************************************************)
(* The standard library (stdlib/mod.rs).                                   *)
(***************************************************************************)
StdlibNames ==
    <<"print", "string", "max", "min", "int", "float", "round", "abs",
      "exec", "exit", "input">>

RECURSIVE register_from(_, _)
\* The wrapped functions are the first Objects made for a State: no table
\* exists yet.
register_from(fs, i) ==
    IF i > Len(StdlibNames) THEN fs
    ELSE register_from(set_global(fs, StdlibNames[i],
                                  Object_in(Fresh(Cells(fs)),
                                            wrapped_function(StdlibNames[i]))),
                       i + 1)

\* A registration that leaves out the last name, input.
register_without_input(fs) ==
    [fs EXCEPT ![1].locals =
        [name \in (DOMAIN register_from(fs, 1)[1].locals) \ {"input"} |->
            register_from(fs, 1)[1].locals[name]]]

\* stdlib::register
register(fs) == register_from(fs, 1)

\* State::new
State_new == register(push_frame(<<>>))

Digits == <<"0", "1", "2", "3", "4", "5", "6", "7", "8", "9">>

RECURSIVE NatToString(_)
NatToString(x) ==
    IF x < 10 THEN Digits[x + 1]
    ELSE NatToString(x \div 10) \o Digits[(x % 10) + 1]

RECURSIVE FractionDigits(_, _, _)
\* The first `left` decimal digits of n/d, 0 <= n < d, without trailing
\* zeros.
FractionDigits(n, d, left) ==
    IF n = 0 \/ left = 0 THEN ""
    ELSE Digits[((10 * n) \div d) + 1] \o FractionDigits((10 * n) % d, d, left - 1)

\* impl Display for f64: the shortest decimal text that reads back as the
\* same f64, here the exact expansion cut after sixteen digits.
f64_to_string(f) ==
    IF f.den = 0 THEN (CASE f.num = 0 -> "NaN" [] f.num = 1 -> "inf" [] f.num = -1 -> "-inf")
    ELSE LET whole == Abs(f.num) \div f.den
             part == Abs(f.num) % f.den
         IN  (IF f.num < 0 THEN "-" ELSE "") \o NatToString(whole)
             \o (IF part = 0 THEN "" ELSE "." \o FractionDigits(part, f.den, 16))

\* impl ToString for Primitive
Primitive_to_string(p) ==
    CASE p.k = "Nil" -> "nil"
      [] p.k = "Integer" ->
            IF p.i < 0 THEN "-" \o NatToString(-p.i) ELSE NatToString(p.i)
      [] p.k = "Float" -> f64_to_string(promote(p))
      [] p.k = "String" -> p.s
      [] p.k = "Boolean" -> IF p.b THEN "true" ELSE "false"

\* The string stdlib::to_string pushes for an object.
to_string(object) ==
    CASE as_primitive(object) -> string(Primitive_to_string(object))
      [] object.k = "Scripted" -> string("scripted function")
      [] object.k = "Wrapped" -> string("wrapped function")

\* i64::MAX and u64::MAX, at the width of the model.
I64_MAX == 2^(IntBits - 1) - 1
U64_MAX == 2^IntBits - 1

RECURSIVE parse_digits(_, _)
\* The digit loop of u64::from_str: Some(value) when every character is a
\* decimal digit and the value fits u64, else None.
parse_digits(acc, rest) ==
    IF rest = "" THEN Some(acc)
    ELSE IF \A d \in 0..9 : Digits[d + 1] # Head(rest) THEN None
    ELSE LET next == acc * 10 + (CHOOSE d \in 0..9 : Digits[d + 1] = Head(rest))
         IN  IF next > U64_MAX THEN None ELSE parse_digits(next, Tail(rest))

\* str::parse::<u64>: an optional `+`, then one decimal digit or more.
parse_u64(s) ==
    IF s = "" THEN None
    ELSE LET digits == IF Head(s) = "+" THEN Tail(s) ELSE s
         IN  IF digits = "" THEN None ELSE parse_digits(0, digits)

\* An integer parse that hands the u64 on as it is.
to_i64_wrapping(x) == Some(x)

\* ToPrimitive::to_i64 for a u64: None when the value exceeds i64::MAX.
to_i64(x) == IF x <= I64_MAX THEN Some(x) ELSE None

\* `x as i64` for an f64: truncation toward zero, saturating, 0 for NaN.
f64_as_i64(f) ==
    IF f.den = 0 THEN (CASE f.num = 0 -> 0 [] f.num > 0 -> I64_MAX [] f.num < 0 -> -I64_MAX - 1)
    ELSE TruncDiv(f.num, f.den)

\* stdlib::to_int on the popped object: the object it pushes, or a panic
\* (a non-primitive argument; utilities::int unwrapping a None).
to_int(object) ==
    CASE ~as_primitive(object) -> Fatal
      [] object.k = "Integer" -> Pushed(int(object.i))
      [] object.k = "Float" -> Pushed(int(f64_as_i64(promote(object))))
      [] object.k = "Boolean" -> Pushed(int(IF object.b THEN 1 ELSE 0))
      [] object.k = "String" ->
            LET parsed == parse_u64(object.s)
            IN  IF ~is_some(parsed) THEN Pushed(nil)
                ELSE IF is_some(to_i64(unwrap(parsed)))
                THEN Pushed(int(unwrap(to_i64(unwrap(parsed)))))
                ELSE Fatal
      [] object.k = "Nil" -> Pushed(nil)

RECURSIVE print_text(_, _)
\* The text stdlib::print writes for the n values on top of the operand
\* stack, taken from the top down.
print_text(operands, n) ==
    IF n = 0 THEN ""
    ELSE to_string(operands[Len(operands)]).s
            \o print_text(SubSeq(operands, 1, Len(operands) - 1), n - 1)

(***************************************************************************)
(* ControlFlow (runtime/executor.rs, mod control_flow).  Idle stands for   *)
(* "no callee has handed anything back": the record on top of `ctl` is a   *)
(* layer about to dispatch its next opcode.                                *)
(***************************************************************************)
CF_None == [t |-> "None"]
CF_Return(n) == [t |-> "Return", n |-> n]
CF_Break == [t |-> "Break"]
CF_Continue == [t |-> "Continue"]
Idle == [t |-> "Idle"]

\* execute: the n of a Return(n) from the layer it ran, 0 for anything else.
execute(cf) == IF cf.t = "Return" THEN cf.n ELSE 0

\* A propagation macro that lets a Return fall through like None.
function_layer_dropping_return(cf) ==
    IF cf.t \in {"None", "Return"} THEN "fallthrough" ELSE "return"

\* A loop macro that hands a Break on to the enclosing layers as it does a
\* Return.
loop_layer_propagating_break(cf) ==
    CASE cf.t \in {"Return", "Break"} -> "return"
      [] cf.t = "Continue" -> "continue"
      [] cf.t = "None" -> "fallthrough"

\* A propagation macro that swallows every signal: the layer goes on with
\* its next opcode.
function_layer_swallowing(cf) == "fallthrough"

\* macro function_layer_control_flow: every signal but None leaves the
\* enclosing Rust function with that same signal.
function_layer_control_flow(cf) ==
    IF cf.t = "None" THEN "fallthrough" ELSE "return"

\* A loop macro for which a Continue ends the loop as a Break does.
loop_layer_ending_on_continue(cf) ==
    CASE cf.t = "Return" -> "return"
      [] cf.t \in {"Break", "Continue"} -> "break"
      [] cf.t = "None" -> "fallthrough"

\* macro loop_layer_control_flow: what the Rust loop around it does next.
loop_layer_control_flow(cf) ==
    CASE cf.t = "Return" -> "return"
      [] cf.t = "Break" -> "break"
      [] cf.t = "Continue" -> "continue"
      [] cf.t = "None" -> "fallthrough"

(***************************************************************************)
(* Activation records of `ctl`.                                            *)
(***************************************************************************)
\* run_execution_layer over `code`, about to dispatch code[pc].
Layer(code) == [kind |-> "layer", code |-> code, pc |-> 1]
\* execute_if_statement / execute_for_loop / execute_while_loop /
\* execute_infinite_loop on opcode `op`, waiting for the sub-layer of `phase`.
IfRec(op, phase) == [kind |-> "if", op |-> op, phase |-> phase]
ForRec(op, phase) == [kind |-> "for", op |-> op, phase |-> phase]
WhileRec(op, phase) == [kind |-> "while", op |-> op, phase |-> phase]
LoopRec(op) == [kind |-> "loop", op |-> op, phase |-> "body"]
\* execute_function_call waiting for execute(f.bytecode()), with its locals
\* `function` and `args`.  h_before is history, not program state: the
\* frames as they were when the Call opcode was dispatched.
CallRec(n, function, args, h_before) ==
    [kind |-> "call", n |-> n, function |-> function, args |-> args,
     h_before |-> h_before]
\* stdlib exec waiting for execute_source, with its local `object` (the
\* argument, whose cell it keeps locked).  h_before is history: the frames
\* as they were when the Call opcode was dispatched.
ExecRec(object, h_before) == [kind |-> "exec", object |-> object, h_before |-> h_before]
\* execute, called by execute_source.
TopRec == [kind |-> "top"]

LoopKinds == {"for", "while", "loop"}

Top(s) == s[Len(s)]
Below(s) == SubSeq(s, 1, Len(s) - 1)
Advance(s) == [s EXCEPT ![Len(s)].pc = @ + 1]

\* The head of the Rust `loop` of execute_for_loop, with the for record on
\* top of `base`: evaluate the condition if there is one, else (the
\* condition counts as true) run the body.
for_iterate(base) ==
    LET op == Top(base).op
    IN  IF is_some(op.condition)
        THEN Below(base) \o <<ForRec(op, "cond"), Layer(unwrap(op.condition))>>
        ELSE Below(base) \o <<ForRec(op, "body"), Layer(op.body)>>

\* The head of the Rust `loop` of execute_while_loop.
while_iterate(base) ==
    LET op == Top(base).op
    IN  Below(base) \o <<WhileRec(op, "cond"), Layer(op.condition)>>

\* The value a Push* opcode pushes.
pushed_value(opcode) ==
    CASE opcode.op = "PushNil" -> nil
      [] opcode.op = "PushInteger" -> int(opcode.i)
      [] opcode.op = "PushFloat" -> float(opcode.f)
      [] opcode.op = "PushString" -> string(opcode.s)
      [] opcode.op = "PushBool" -> boolean(opcode.b)
      [] opcode.op = "PushFunction" -> scripted_function(opcode.bytecode)

PushOps ==
    {"PushNil", "PushInteger", "PushFloat", "PushString", "PushBool", "PushFunction"}

\* A call that hands the arguments over in the order they lay on the
\* caller's stack, the first argument at the bottom of the new frame.
call_enter_first_at_bottom(fs, n) ==
    IF operand_stack_size(fs) = 0 THEN [fatal |-> TRUE, fs |-> fs]
    ELSE IF peek(fs).k \notin FunctionKinds THEN [fatal |-> TRUE, fs |-> pop(fs)]
    ELSE IF operand_stack_size(pop(fs)) < n
    THEN [fatal |-> TRUE, fs |-> drop_n(pop(fs), operand_stack_size(pop(fs)))]
    ELSE LET args == pop_n(pop(fs), n)
         IN  [fatal |-> FALSE, function |-> peek(fs), args |-> args,
              fs |-> push_all(push_frame(drop_n(pop(fs), n)),
                              [i \in 1..n |-> args[n + 1 - i]])]

\* A call that pops its arguments before it looks at the callee.
call_enter_arguments_first(fs, n) ==
    IF operand_stack_size(fs) = 0 THEN [fatal |-> TRUE, fs |-> fs]
    ELSE IF peek(fs).k \notin FunctionKinds
    THEN [fatal |-> TRUE,
          fs |-> drop_n(pop(fs), IF operand_stack_size(pop(fs)) < n
                                 THEN operand_stack_size(pop(fs)) ELSE n)]
    ELSE IF operand_stack_size(pop(fs)) < n
    THEN [fatal |-> TRUE, fs |-> drop_n(pop(fs), operand_stack_size(pop(fs)))]
    ELSE LET args == pop_n(pop(fs), n)
         IN  [fatal |-> FALSE, function |-> peek(fs), args |-> args,
              fs |-> push_all(push_frame(drop_n(pop(fs), n)), args)]

\* execute_function_call, up to the dispatch on the function: pop the
\* callee (it must be a function), pop n arguments, push a frame, push the
\* arguments onto it in the order popped.
call_enter(fs, n) ==
    IF operand_stack_size(fs) = 0 THEN [fatal |-> TRUE, fs |-> fs]
    ELSE IF peek(fs).k \notin FunctionKinds THEN [fatal |-> TRUE, fs |-> pop(fs)]
    ELSE IF operand_stack_size(pop(fs)) < n
    THEN [fatal |-> TRUE, fs |-> drop_n(pop(fs), operand_stack_size(pop(fs)))]
    ELSE LET args == pop_n(pop(fs), n)
         IN  [fatal |-> FALSE, function |-> peek(fs), args |-> args,
              fs |-> push_all(push_frame(drop_n(pop(fs), n)), args)]

\* A return that moves everything the callee left on its operand stack to
\* the caller.
call_leave_moving_all(fs, push_amt) ==
    IF operand_stack_size(fs) < push_amt
    THEN [fatal |-> TRUE, fs |-> drop_n(fs, operand_stack_size(fs))]
    ELSE LET returns == pop_n(fs, operand_stack_size(fs))
         IN  [fatal |-> FALSE,
              fs |-> push_all(pop_frame(drop_n(fs, operand_stack_size(fs))), returns)]

\* execute_function_call, after the callee: pop push_amt values from the
\* callee's frame, pop that frame, push the values in the order popped.
call_leave(fs, push_amt) ==
    IF operand_stack_size(fs) < push_amt
    THEN [fatal |-> TRUE, fs |-> drop_n(fs, operand_stack_size(fs))]
    ELSE LET returns == pop_n(fs, push_amt)
         IN  [fatal |-> FALSE, fs |-> push_all(pop_frame(drop_n(fs, push_amt)), returns)]

ModelledNatives == {"print", "string", "int"}

\* A native function run on the frame prepared for it: the frame it
\* leaves, the number of results it reports and the text it prints.
native(f, fs, n) ==
    CASE f = "print" ->
            IF \E i \in 1..n : pop_n(fs, n)[i].k = "Table" THEN [fatal |-> TRUE, fs |-> fs]
            ELSE
            [fatal |-> FALSE, fs |-> drop_n(fs, n), push_amt |-> 0,
             text |-> IF n # 0 THEN <<print_text(fs[Len(fs)].operands, n)>> ELSE <<>>]
      [] f = "string" ->
            IF n # 1 \/ peek(fs).k = "Table" THEN [fatal |-> TRUE, fs |-> fs]
            ELSE [fatal |-> FALSE,
                  fs |-> push(pop(fs), Object_new(fs, to_string(peek(fs)))),
                  push_amt |-> 1, text |-> <<>>]
      [] f = "int" ->
            IF n # 1 THEN [fatal |-> TRUE, fs |-> fs]
            ELSE IF to_int(peek(fs)).fatal THEN [fatal |-> TRUE, fs |-> pop(fs)]
            ELSE [fatal |-> FALSE,
                  fs |-> push(pop(fs), Object_new(fs, to_int(peek(fs)).v)),
                  push_amt |-> 1, text |-> <<>>]

(***************************************************************************)
(* The executor as a state machine.                                        *)
(*   frames   State.stack                                                  *)
(*   heap     the contents of the table cells: cell |-> (key |-> Object)   *)
(*   ctl      the live Rust activations of the executor, innermost last    *)
(*   sig      the ControlFlow just handed back to Top(ctl), or Idle        *)
(*   status   "idle" between top-level executions, "running", "panicked",  *)
(*            "blocked" when the thread waits for a lock it holds itself   *)
(*   out      the lines printed so far                                     *)
(*   session  what the embedding program still does with the State         *)
(*   cur      the source being executed, the operand-stack height when it  *)
(*            started and the value execute_source returned for it         *)
(*   last     the action taken last and the state it was taken in          *)
(***************************************************************************)
Log(act) == last' = [act |-> act, frames |-> frames, ctl |-> ctl, sig |-> sig]

\* A fatal error: the process stops, leaving `fs` behind.
Panic(act, fs) ==
    /\ status' = "panicked"
    /\ frames' = fs
    /\ Log(act)
    /\ UNCHANGED <<heap, ctl, sig, out, session, cur>>

\* Mutex::lock on a cell whose lock the executing thread already holds:
\* the call never returns, the thread deadlocks or panics.
Relock(act, fs) ==
    /\ status' \in {"blocked", "panicked"}
    /\ frames' = fs
    /\ Log(act)
    /\ UNCHANGED <<heap, ctl, sig, out, session, cur>>

\* execute_source on a text that parses but whose translation runs todo!():
\* compile panics before execute is entered.
ExecuteSourceTodo ==
    /\ status = "idle"
    /\ session # <<>>
    /\ Head(session).item = "source"
    /\ translation_panics(compile(Head(session).ast))
    /\ cur' = [ast |-> Head(session).ast, base |-> operand_stack_size(frames),
               pushed_amt |-> 0]
    /\ session' = Tail(session)
    /\ status' = "panicked"
    /\ Log("ExecuteSourceTodo")
    /\ UNCHANGED <<heap, frames, ctl, sig, out>>

\* The cells a native function locks when called from `fs` (the function
\* on top, its n arguments below): to_string, to_int and exec lock their
\* one argument; print runs to_string on its arguments, the first written
\* first, up to a table.
NativeLocks(f, fs, n) ==
    LET ops == fs[Len(fs)].operands
        arg(i) == ops[Len(ops) - 1 - n + i]
    IN  IF Len(ops) < n + 1 THEN {}
        ELSE IF f \in {"string", "int", "exec"} THEN (IF n = 1 THEN {arg(1).cell} ELSE {})
        ELSE IF f = "print"
        THEN {arg(i).cell : i \in {j \in 1..n : \A k \in 1..(j - 1) : arg(k).k # "Table"}}
        ELSE {}

\* The cells the step the executor is about to take locks (Mutex::lock on
\* the inner of an Object), and the frames as that step leaves them when a
\* lock is not granted: a binary operator locks both operands; negation,
\* GetKey and a condition lock the value they popped; SetKey locks the
\* table; a Call locks the callee, and a native callee its arguments.
Locking ==
    IF status = "running" /\ sig = Idle /\ ctl # <<>> /\ Top(ctl).kind = "layer"
       /\ Top(ctl).pc <= Len(Top(ctl).code)
    THEN LET op == Top(ctl).code[Top(ctl).pc]
             n == operand_stack_size(frames)
         IN  CASE op.op = "BinaryOperation" /\ n >= 2 ->
                    [cells |-> {peek(frames).cell, peek(pop(frames)).cell},
                     fs |-> drop_n(frames, 2)]
               [] op.op = "UnaryOperation" /\ n >= 1 /\ op.kind = "Negate" ->
                    [cells |-> {peek(frames).cell}, fs |-> pop(frames)]
               [] op.op = "GetKey" /\ n >= 1 ->
                    [cells |-> {peek(frames).cell}, fs |-> pop(frames)]
               [] op.op = "SetKey" /\ n >= 2 ->
                    [cells |-> {peek(pop(frames)).cell}, fs |-> drop_n(frames, 2)]
               [] op.op = "Call" /\ n >= 1 ->
                    [cells |-> {peek(frames).cell}
                                \cup (IF peek(frames).k = "Wrapped"
                                      THEN NativeLocks(peek(frames).f, frames, op.n)
                                      ELSE {}),
                     fs |-> pop(frames)]
               [] OTHER -> [cells |-> {}, fs |-> frames]
    ELSE IF status = "running" /\ sig # Idle /\ ctl # <<>>
            /\ Top(ctl).kind \in {"if", "for", "while"} /\ Top(ctl).phase = "cond"
            /\ operand_stack_size(frames) >= 1
    THEN [cells |-> {peek(frames).cell}, fs |-> pop(frames)]
    ELSE [cells |-> {}, fs |-> frames]

\* The step is not kept waiting by a lock that exec holds.
Granted == Locking.cells \cap Held = {}

\* A step locks a cell that a call of exec in progress keeps locked: the
\* thread waits for itself.
LockHeld ==
    /\ ~Granted
    /\ Relock("LockHeld", Locking.fs)

Dispatching ==
    /\ status = "running"
    /\ sig = Idle
    /\ ctl # <<>>
    /\ Top(ctl).kind = "layer"
    /\ Top(ctl).pc <= Len(Top(ctl).code)
    /\ Granted

CurOp == Top(ctl).code[Top(ctl).pc]

\* A callee has handed `sig` back to a record of kind `kind` in `phase`.
Handing(kind, phase) ==
    /\ status = "running"
    /\ sig # Idle
    /\ ctl # <<>>
    /\ Top(ctl).kind = kind
    /\ Top(ctl).phase = phase
    /\ Granted

\* State::set_global called by the embedding program.
SetGlobal ==
    /\ status = "idle"
    /\ session # <<>>
    /\ Head(session).item = "set_global"
    /\ LET obj == Object_new(frames, Head(session).obj)
       IN  /\ frames' = set_global(frames, Head(session).name, obj)
           /\ heap' = IF obj.k = "Table"
                      THEN [c \in (DOMAIN heap) \cup {obj.cell} |->
                               IF c = obj.cell THEN Table_new ELSE heap[c]]
                      ELSE heap
    /\ session' = Tail(session)
    /\ Log("SetGlobal")
    /\ UNCHANGED <<ctl, sig, status, out, cur>>

\* execute_source on a source that parses: compile it and start execute.
ExecuteSource ==
    /\ status = "idle"
    /\ session # <<>>
    /\ Head(session).item = "source"
    /\ ~translation_panics(compile(Head(session).ast))
    /\ ctl' = <<TopRec, Layer(compile(Head(session).ast))>>
    /\ sig' = Idle
    /\ status' = "running"
    /\ cur' = [ast |-> Head(session).ast, base |-> operand_stack_size(frames),
               pushed_amt |-> 0]
    /\ session' = Tail(session)
    /\ Log("ExecuteSource")
    /\ UNCHANGED <<heap, frames, out>>

\* An error path that empties the operand stack it would have run on.
ExecuteSourceErrorClearing ==
    /\ status = "idle"
    /\ session # <<>>
    /\ Head(session).item = "unparsable"
    /\ frames' = drop_n(frames, operand_stack_size(frames))
    /\ session' = Tail(session)
    /\ Log("ExecuteSourceError")
    /\ UNCHANGED <<heap, ctl, sig, status, out, cur>>

\* execute_source on a source that does not parse: compile returns the
\* error and `?` hands it to the caller before execute is called.
ExecuteSourceError ==
    /\ status = "idle"
    /\ session # <<>>
    /\ Head(session).item = "unparsable"
    /\ session' = Tail(session)
    /\ Log("ExecuteSourceError")
    /\ UNCHANGED <<heap, frames, ctl, sig, status, out, cur>>

\* execute, as called by execute_source, returns.
ExecuteDone ==
    /\ status = "running"
    /\ sig # Idle
    /\ ctl = <<TopRec>>
    /\ ctl' = <<>>
    /\ sig' = Idle
    /\ status' = "idle"
    /\ cur' = [cur EXCEPT !.pushed_amt = execute(sig)]
    /\ Log("ExecuteDone")
    /\ UNCHANGED <<heap, frames, out, session>>

\* run_execution_layer runs off the end of its bytecode.
LayerEnd ==
    /\ status = "running"
    /\ sig = Idle
    /\ ctl # <<>>
    /\ Top(ctl).kind = "layer"
    /\ Top(ctl).pc > Len(Top(ctl).code)
    /\ ctl' = Below(ctl)
    /\ sig' = CF_None
    /\ Log("LayerEnd")
    /\ UNCHANGED <<heap, frames, status, out, session, cur>>

\* run_execution_layer / execute_operation get the signal of a nested
\* if, for, while or loop: function_layer_control_flow.
LayerControlFlow ==
    /\ status = "running"
    /\ sig # Idle
    /\ ctl # <<>>
    /\ Top(ctl).kind = "layer"
    /\ IF function_layer_control_flow(sig) = "return"
       THEN ctl' = Below(ctl) /\ sig' = sig
       ELSE ctl' = ctl /\ sig' = Idle
    /\ Log("LayerControlFlow")
    /\ UNCHANGED <<heap, frames, status, out, session, cur>>

\* OpCode::Store
ExecStore ==
    /\ Dispatching
    /\ CurOp.op = "Store"
    /\ IF operand_stack_size(frames) = 0 THEN Panic("ExecStore", frames)
       ELSE /\ frames' = store_local(frames, CurOp.name)
            /\ ctl' = Advance(ctl)
            /\ Log("ExecStore")
            /\ UNCHANGED <<heap, sig, status, out, session, cur>>

\* OpCode::Load
ExecLoad ==
    /\ Dispatching
    /\ CurOp.op = "Load"
    /\ frames' = load(frames, CurOp.name)
    /\ ctl' = Advance(ctl)
    /\ Log("ExecLoad")
    /\ UNCHANGED <<heap, sig, status, out, session, cur>>

\* A SetKey that writes into a copy of the table it popped: the cell the
\* other references share is left as it was.
ExecSetKeyOnCopy ==
    /\ Dispatching
    /\ CurOp.op = "SetKey"
    /\ IF operand_stack_size(frames) < 2
       THEN Panic("ExecSetKey", drop_n(frames, operand_stack_size(frames)))
       ELSE LET value == peek(frames)
                table_obj == peek(pop(frames))
                copy == Object_new(frames, table)
            IN  IF table_obj.k # "Table" THEN Panic("ExecSetKey", drop_n(frames, 2))
                ELSE /\ frames' = drop_n(frames, 2)
                     /\ heap' = [c \in (DOMAIN heap) \cup {copy.cell} |->
                                    IF c = copy.cell
                                    THEN set_key(heap, table_obj, CurOp.key, value)[table_obj.cell]
                                    ELSE heap[c]]
                     /\ ctl' = Advance(ctl)
                     /\ Log("ExecSetKey")
                     /\ UNCHANGED <<sig, status, out, session, cur>>

\* OpCode::SetKey: pop the value, pop the table, write the value into the
\* table's cell at the key.
ExecSetKey ==
    /\ Dispatching
    /\ CurOp.op = "SetKey"
    /\ IF operand_stack_size(frames) < 2
       THEN Panic("ExecSetKey", drop_n(frames, operand_stack_size(frames)))
       ELSE LET value == peek(frames)
                table_obj == peek(pop(frames))
            IN  IF table_obj.k # "Table" THEN Panic("ExecSetKey", drop_n(frames, 2))
                ELSE /\ frames' = drop_n(frames, 2)
                     /\ heap' = set_key(heap, table_obj, CurOp.key, value)
                     /\ ctl' = Advance(ctl)
                     /\ Log("ExecSetKey")
                     /\ UNCHANGED <<sig, status, out, session, cur>>

\* OpCode::GetKey: pop the table, push the Object stored at the key, or a
\* new nil when the table has none.
ExecGetKey ==
    /\ Dispatching
    /\ CurOp.op = "GetKey"
    /\ IF operand_stack_size(frames) < 1 THEN Panic("ExecGetKey", frames)
       ELSE IF peek(frames).k # "Table" THEN Panic("ExecGetKey", pop(frames))
       ELSE LET value == get_key(heap, peek(frames), CurOp.key)
            IN  /\ frames' = push(pop(frames),
                                  IF is_some(value) THEN unwrap(value)
                                  ELSE Object_new(frames, nil))
                /\ ctl' = Advance(ctl)
                /\ Log("ExecGetKey")
                /\ UNCHANGED <<heap, sig, status, out, session, cur>>

\* OpCode::PushInteger, PushString, PushBool, PushFunction, PushNil
ExecPush ==
    /\ Dispatching
    /\ CurOp.op \in PushOps
    /\ frames' = push(frames, Object_new(frames, pushed_value(CurOp)))
    /\ ctl' = Advance(ctl)
    /\ Log("ExecPush")
    /\ UNCHANGED <<heap, sig, status, out, session, cur>>

\* comparison::equals and not_equals lock the cell of `a`, then the cell
\* of `b`, and keep both locked while they compare.
LocksBoth(kind) == kind \in {"Equal", "NotEqual"}

\* execute_binary_operation
ExecBinaryOperation ==
    /\ Dispatching
    /\ CurOp.op = "BinaryOperation"
    /\ IF operand_stack_size(frames) < 2
       THEN Panic("ExecBinaryOperation", drop_n(frames, operand_stack_size(frames)))
       ELSE LET right == peek(frames)
                left == peek(pop(frames))
                result == binary_operation(CurOp.kind, left, right)
                done == /\ frames' = push(drop_n(frames, 2), Object_new(frames, result.v))
                        /\ ctl' = Advance(ctl)
                        /\ Log("ExecBinaryOperation")
                        /\ UNCHANGED <<heap, sig, status, out, session, cur>>
            IN  IF LocksBoth(CurOp.kind) /\ left.cell = right.cell
                THEN Relock("ExecBinaryOperation", drop_n(frames, 2))
                ELSE IF LocksBoth(CurOp.kind) /\ SharedEntry(left, right)
                THEN \/ Relock("ExecBinaryOperation", drop_n(frames, 2))
                     \/ EndsBeforeSharedEntry(left, right) /\ done
                ELSE IF result.fatal THEN Panic("ExecBinaryOperation", drop_n(frames, 2))
                ELSE done

\* execute_unary_operation
ExecUnaryOperation ==
    /\ Dispatching
    /\ CurOp.op = "UnaryOperation"
    /\ IF operand_stack_size(frames) < 1 THEN Panic("ExecUnaryOperation", frames)
       ELSE LET result == unary_operation(CurOp.kind, peek(frames))
            IN  IF result.fatal THEN Panic("ExecUnaryOperation", pop(frames))
                ELSE /\ frames' = push(pop(frames), Object_new(frames, result.v))
                     /\ ctl' = Advance(ctl)
                     /\ Log("ExecUnaryOperation")
                     /\ UNCHANGED <<heap, sig, status, out, session, cur>>

\* OpCode::Return, Break, Continue: execute_operation returns the signal,
\* which ends the layer.
ExecControlFlow ==
    /\ Dispatching
    /\ CurOp.op \in {"Return", "Break", "Continue"}
    /\ ctl' = Below(ctl)
    /\ sig' = CASE CurOp.op = "Return" -> CF_Return(CurOp.n)
                [] CurOp.op = "Break" -> CF_Break
                [] CurOp.op = "Continue" -> CF_Continue
    /\ Log("ExecControlFlow")
    /\ UNCHANGED <<heap, frames, status, out, session, cur>>

\* execute_function_call on a scripted function, up to execute(f.bytecode()).
ExecCall ==
    /\ Dispatching
    /\ CurOp.op = "Call"
    /\ LET entered == call_enter(frames, CurOp.n)
       IN  IF entered.fatal THEN Panic("ExecCall", entered.fs)
           ELSE /\ entered.function.k = "Scripted"
                /\ frames' = entered.fs
                /\ ctl' = Advance(ctl)
                          \o <<CallRec(CurOp.n, entered.function, entered.args, frames),
                               Layer(entered.function.bytecode)>>
                /\ Log("ExecCall")
                /\ UNCHANGED <<heap, sig, status, out, session, cur>>

\* A return from a scripted function that hands a Break or Continue of the
\* body on to the caller's layer.
CallReturnPassingSignal ==
    /\ status = "running"
    /\ sig # Idle
    /\ ctl # <<>>
    /\ Top(ctl).kind = "call"
    /\ LET left == call_leave(frames, execute(sig))
       IN  IF left.fatal THEN Panic("CallReturn", left.fs)
           ELSE /\ frames' = left.fs
                /\ ctl' = Below(ctl)
                /\ sig' = IF sig.t \in {"Break", "Continue"} THEN sig ELSE Idle
                /\ Log("CallReturn")
                /\ UNCHANGED <<heap, status, out, session, cur>>

\* execute_function_call on a scripted function, once execute has returned.
CallReturn ==
    /\ status = "running"
    /\ sig # Idle
    /\ ctl # <<>>
    /\ Top(ctl).kind = "call"
    /\ LET left == call_leave(frames, execute(sig))
       IN  IF left.fatal THEN Panic("CallReturn", left.fs)
           ELSE /\ frames' = left.fs
                /\ ctl' = Below(ctl)
                /\ sig' = Idle
                /\ Log("CallReturn")
                /\ UNCHANGED <<heap, status, out, session, cur>>

\* execute_function_call on a wrapped (native) function, as a whole.
ExecCallWrapped ==
    /\ Dispatching
    /\ CurOp.op = "Call"
    /\ LET entered == call_enter(frames, CurOp.n)
       IN  /\ ~entered.fatal
           /\ entered.function.k = "Wrapped"
           /\ entered.function.f \in ModelledNatives
           /\ LET ran == native(entered.function.f, entered.fs, CurOp.n)
              IN  IF ran.fatal THEN Panic("ExecCallWrapped", ran.fs)
                  ELSE LET left == call_leave(ran.fs, ran.push_amt)
                       IN  IF left.fatal THEN Panic("ExecCallWrapped", left.fs)
                           ELSE /\ frames' = left.fs
                                /\ out' = out \o ran.text
                                /\ ctl' = Advance(ctl)
                                /\ Log("ExecCallWrapped")
                                /\ UNCHANGED <<heap, sig, status, session, cur>>

\* stdlib exec, called by execute_function_call, up to execute: pop the
\* argument, lock its cell, compile the string in it and start execute on
\* the frame of the call.  A text without a parse gives the error's text
\* for a result at once.
CallExec ==
    /\ Dispatching
    /\ CurOp.op = "Call"
    /\ LET entered == call_enter(frames, CurOp.n)
       IN  /\ ~entered.fatal
           /\ entered.function.k = "Wrapped"
           /\ entered.function.f = "exec"
           /\ IF CurOp.n # 1 THEN Panic("CallExec", entered.fs)
              ELSE IF peek(entered.fs).k # "String" THEN Panic("CallExec", pop(entered.fs))
              ELSE LET object == peek(entered.fs)
                   IN  /\ object.s \in ExecTexts
                       /\ IF ~is_some(parse(object.s))
                          THEN /\ frames' = call_leave(
                                      push(pop(entered.fs),
                                           Object_new(entered.fs, string(ParseErrorText))),
                                      1).fs
                               /\ ctl' = Advance(ctl)
                               /\ Log("CallExec")
                               /\ UNCHANGED <<heap, sig, status, out, session, cur>>
                          ELSE IF translation_panics(compile(unwrap(parse(object.s))))
                          THEN Panic("CallExec", pop(entered.fs))
                          ELSE /\ frames' = pop(entered.fs)
                               /\ ctl' = Advance(ctl)
                                         \o <<ExecRec(object, frames),
                                              Layer(compile(unwrap(parse(object.s))))>>
                               /\ Log("CallExec")
                               /\ UNCHANGED <<heap, sig, status, out, session, cur>>

\* An exec whose frame leaves its locals behind in the caller's frame.
ExecReturnLeavingLocals ==
    /\ status = "running"
    /\ sig # Idle
    /\ ctl # <<>>
    /\ Top(ctl).kind = "exec"
    /\ LET result == IF operand_stack_size(frames) > 0 THEN peek(frames)
                     ELSE Object_new(frames, nil)
           popped == IF operand_stack_size(frames) > 0 THEN pop(frames) ELSE frames
           left == push(pop_frame_leaking(popped), result)
       IN  frames' = left
    /\ ctl' = Below(ctl)
    /\ sig' = Idle
    /\ Log("ExecReturn")
    /\ UNCHANGED <<heap, status, out, session, cur>>

\* stdlib exec once execute_source has returned Ok: the result is the top
\* of the operand stack, or a new nil when the stack is empty; exec pushes
\* it and reports one result, which execute_function_call hands to the
\* caller.
ExecReturn ==
    /\ status = "running"
    /\ sig # Idle
    /\ ctl # <<>>
    /\ Top(ctl).kind = "exec"
    /\ LET result == IF operand_stack_size(frames) > 0 THEN peek(frames)
                     ELSE Object_new(frames, nil)
           popped == IF operand_stack_size(frames) > 0 THEN pop(frames) ELSE frames
       IN  frames' = call_leave(push(popped, result), 1).fs
    /\ ctl' = Below(ctl)
    /\ sig' = Idle
    /\ Log("ExecReturn")
    /\ UNCHANGED <<heap, status, out, session, cur>>

\* execute_if_statement starts: execute(state, condition).
ExecIf ==
    /\ Dispatching
    /\ CurOp.op = "If"
    /\ ctl' = Advance(ctl) \o <<IfRec(CurOp, "cond"), Layer(CurOp.condition)>>
    /\ Log("ExecIf")
    /\ UNCHANGED <<heap, frames, sig, status, out, session, cur>>

\* An if statement that runs its body on a true condition and, having an
\* else body, runs that as well.
IfConditionFallingIntoElse ==
    /\ Handing("if", "cond")
    /\ IF operand_stack_size(frames) = 0 THEN Panic("IfCondition", frames)
       ELSE IF ~as_bool(peek(frames)) THEN Panic("IfCondition", pop(frames))
       ELSE /\ frames' = pop(frames)
            /\ LET op == Top(ctl).op
               IN  IF peek(frames).b
                   THEN /\ ctl' = Below(ctl)
                                  \o <<IfRec(op, "body"),
                                       Layer(op.body \o (IF is_some(op.else_body)
                                                         THEN unwrap(op.else_body)
                                                         ELSE <<>>))>>
                        /\ sig' = Idle
                   ELSE IF is_some(op.else_body)
                   THEN /\ ctl' = Below(ctl)
                                  \o <<IfRec(op, "body"), Layer(unwrap(op.else_body))>>
                        /\ sig' = Idle
                   ELSE /\ ctl' = Below(ctl)
                        /\ sig' = CF_None
            /\ Log("IfCondition")
            /\ UNCHANGED <<heap, status, out, session, cur>>

\* execute_if_statement after the condition: pop it; it must be a boolean;
\* run the body, or the else body if there is one, or return None.
IfCondition ==
    /\ Handing("if", "cond")
    /\ IF operand_stack_size(frames) = 0 THEN Panic("IfCondition", frames)
       ELSE IF ~as_bool(peek(frames)) THEN Panic("IfCondition", pop(frames))
       ELSE /\ frames' = pop(frames)
            /\ LET op == Top(ctl).op
               IN  IF peek(frames).b
                   THEN /\ ctl' = Below(ctl) \o <<IfRec(op, "body"), Layer(op.body)>>
                        /\ sig' = Idle
                   ELSE IF is_some(op.else_body)
                   THEN /\ ctl' = Below(ctl)
                                  \o <<IfRec(op, "body"), Layer(unwrap(op.else_body))>>
                        /\ sig' = Idle
                   ELSE /\ ctl' = Below(ctl)
                        /\ sig' = CF_None
            /\ Log("IfCondition")
            /\ UNCHANGED <<heap, status, out, session, cur>>

\* execute_if_statement after the body or the else body:
\* function_layer_control_flow re-raises its signal, None stays None.
IfBody ==
    /\ Handing("if", "body")
    /\ ctl' = Below(ctl)
    /\ sig' = IF function_layer_control_flow(sig) = "return" THEN sig ELSE CF_None
    /\ Log("IfBody")
    /\ UNCHANGED <<heap, frames, status, out, session, cur>>

\* execute_for_loop starts: execute the initialization if there is one,
\* else enter the loop.
ExecFor ==
    /\ Dispatching
    /\ CurOp.op = "For"
    /\ ctl' = IF is_some(CurOp.initialization)
              THEN Advance(ctl)
                   \o <<ForRec(CurOp, "init"), Layer(unwrap(CurOp.initialization))>>
              ELSE for_iterate(Advance(ctl) \o <<ForRec(CurOp, "init")>>)
    /\ Log("ExecFor")
    /\ UNCHANGED <<heap, frames, sig, status, out, session, cur>>

\* execute_for_loop after execute(state, initialization).
ForInitialization ==
    /\ Handing("for", "init")
    /\ ctl' = for_iterate(ctl)
    /\ sig' = Idle
    /\ Log("ForInitialization")
    /\ UNCHANGED <<heap, frames, status, out, session, cur>>

\* execute_for_loop after execute(state, condition): pop a boolean; run
\* the body if it is true, else leave the loop.
ForCondition ==
    /\ Handing("for", "cond")
    /\ IF operand_stack_size(frames) = 0 THEN Panic("ForCondition", frames)
       ELSE IF ~as_bool(peek(frames)) THEN Panic("ForCondition", pop(frames))
       ELSE /\ frames' = pop(frames)
            /\ IF peek(frames).b
               THEN /\ ctl' = Below(ctl)
                              \o <<ForRec(Top(ctl).op, "body"), Layer(Top(ctl).op.body)>>
                    /\ sig' = Idle
               ELSE /\ ctl' = Below(ctl)
                    /\ sig' = CF_None
            /\ Log("ForCondition")
            /\ UNCHANGED <<heap, status, out, session, cur>>

\* execute_for_loop after the body: loop_layer_control_flow, then the
\* increment if there is one.
ForBody ==
    /\ Handing("for", "body")
    /\ LET next == loop_layer_control_flow(sig)
           op == Top(ctl).op
       IN  CASE next = "return" -> ctl' = Below(ctl) /\ sig' = sig
             [] next = "break" -> ctl' = Below(ctl) /\ sig' = CF_None
             [] next = "continue" -> ctl' = for_iterate(ctl) /\ sig' = Idle
             [] next = "fallthrough" ->
                  /\ ctl' = IF is_some(op.increment)
                            THEN Below(ctl)
                                 \o <<ForRec(op, "incr"), Layer(unwrap(op.increment))>>
                            ELSE for_iterate(ctl)
                  /\ sig' = Idle
    /\ Log("ForBody")
    /\ UNCHANGED <<heap, frames, status, out, session, cur>>

\* execute_for_loop after execute(state, increment): next iteration.
ForIncrement ==
    /\ Handing("for", "incr")
    /\ ctl' = for_iterate(ctl)
    /\ sig' = Idle
    /\ Log("ForIncrement")
    /\ UNCHANGED <<heap, frames, status, out, session, cur>>

\* execute_while_loop starts: execute(state, condition).
ExecWhile ==
    /\ Dispatching
    /\ CurOp.op = "While"
    /\ ctl' = while_iterate(Advance(ctl) \o <<WhileRec(CurOp, "cond")>>)
    /\ Log("ExecWhile")
    /\ UNCHANGED <<heap, frames, sig, status, out, session, cur>>

\* execute_while_loop after the condition: pop it; true runs the body,
\* false leaves the loop, and a value that is no boolean goes round again.
WhileCondition ==
    /\ Handing("while", "cond")
    /\ IF operand_stack_size(frames) = 0 THEN Panic("WhileCondition", frames)
       ELSE /\ frames' = pop(frames)
            /\ IF as_bool(peek(frames))
               THEN IF peek(frames).b
                    THEN /\ ctl' = Below(ctl) \o <<WhileRec(Top(ctl).op, "body"),
                                                     Layer(Top(ctl).op.body)>>
                         /\ sig' = Idle
                    ELSE /\ ctl' = Below(ctl)
                         /\ sig' = CF_None
               ELSE /\ ctl' = while_iterate(ctl)
                    /\ sig' = Idle
            /\ Log("WhileCondition")
            /\ UNCHANGED <<heap, status, out, session, cur>>

\* execute_while_loop after the body: loop_layer_control_flow.
WhileBody ==
    /\ Handing("while", "body")
    /\ LET next == loop_layer_control_flow(sig)
       IN  CASE next = "return" -> ctl' = Below(ctl) /\ sig' = sig
             [] next = "break" -> ctl' = Below(ctl) /\ sig' = CF_None
             [] next \in {"continue", "fallthrough"} ->
                  ctl' = while_iterate(ctl) /\ sig' = Idle
    /\ Log("WhileBody")
    /\ UNCHANGED <<heap, frames, status, out, session, cur>>

\* execute_infinite_loop starts its first iteration.
ExecLoop ==
    /\ Dispatching
    /\ CurOp.op = "Loop"
    /\ ctl' = Advance(ctl) \o <<LoopRec(CurOp), Layer(CurOp.body)>>
    /\ Log("ExecLoop")
    /\ UNCHANGED <<heap, frames, sig, status, out, session, cur>>

\* execute_infinite_loop after the body: loop_layer_control_flow.
LoopBody ==
    /\ Handing("loop", "body")
    /\ LET next == loop_layer_control_flow(sig)
       IN  CASE next = "return" -> ctl' = Below(ctl) /\ sig' = sig
             [] next = "break" -> ctl' = Below(ctl) /\ sig' = CF_None
             [] next \in {"continue", "fallthrough"} ->
                  ctl' = Below(ctl) \o <<LoopRec(Top(ctl).op), Layer(Top(ctl).op.body)>>
                  /\ sig' = Idle
    /\ Log("LoopBody")
    /\ UNCHANGED <<heap, frames, status, out, session, cur>>

(***************************************************************************)
(* The programs the model runs.  A session is what an embedding program    *)
(* does with one State: set_global calls and execute_source calls.         *)
(***************************************************************************)
Source(nodes) == [item |-> "source", ast |-> AstBlock(nodes)]
Global(name, obj) == [item |-> "set_global", name |-> name, obj |-> obj]

\* A source text for which parser::parse returns an error.
Unparsable == [item |-> "unparsable"]

Num(x) == AstNumberLiteral(x)
Float(n, d) == AstFloatLiteral(f64(n, d))
Id(s) == AstIdentifier(s)
True == AstBooleanLiteral(TRUE)
False == AstBooleanLiteral(FALSE)
Bin(kind, left, right) == AstBinaryOperation(kind, left, right)
Fn(args, nodes) == AstFunctionDef(args, AstBlock(nodes))

RECURSIVE Nest(_, _)
\* `node` inside d nested if/else statements: odd levels put it in the
\* `if` body, even levels in the `else` body.
Nest(d, node) ==
    IF d = 0 THEN node
    ELSE IF d % 2 = 1
    THEN AstIf(True, AstBlock(<<Nest(d - 1, node)>>), None)
    ELSE AstIf(False, AstBlock(<<AstAssignment("dead", Num(0))>>),
               Some(AstBlock(<<Nest(d - 1, node)>>)))

Ints == 0..MaxInt

\* sub = fn(a, b) { return a - b; }; r = sub(x, y);
SubSession(x, y) ==
    <<Source(<<AstAssignment("sub", Fn(<<"a", "b">>,
                  <<AstReturn(Some(Bin("Subtract", Id("a"), Id("b"))))>>)),
               AstAssignment("r", AstFunctionCall("sub", <<Num(x), Num(y)>>))>>)>>

\* pick = fn(a, b, c) { t = b; return c; }; t = 9; r = pick(x, y, 7);
PickSession(x, y) ==
    <<Source(<<AstAssignment("pick", Fn(<<"a", "b", "c">>,
                  <<AstAssignment("t", Id("b")), AstReturn(Some(Id("c")))>>)),
               AstAssignment("t", Num(9)),
               AstAssignment("r", AstFunctionCall("pick", <<Num(x), Num(y), Num(7)>>))>>)>>

\* x = 1; set = fn(v) { x = v; w = x; return w; }; r = set(y); s = x;
ShadowSession(y) ==
    <<Source(<<AstAssignment("x", Num(1)),
               AstAssignment("set", Fn(<<"v">>,
                  <<AstAssignment("x", Id("v")), AstAssignment("w", Id("x")),
                    AstReturn(Some(Id("w")))>>)),
               AstAssignment("r", AstFunctionCall("set", <<Num(y)>>)),
               AstAssignment("s", Id("x"))>>)>>

\* f = fn(x) { if x <= 1 { return 1; } return x * f(x - 1); }; r = f(n);
FactSession(n) ==
    <<Source(<<AstAssignment("f", Fn(<<"x">>,
                  <<AstIf(Bin("LessThanOrEqual", Id("x"), Num(1)),
                          AstBlock(<<AstReturn(Some(Num(1)))>>), None),
                    AstReturn(Some(Bin("Multiply", Id("x"),
                        AstFunctionCall("f", <<Bin("Subtract", Id("x"), Num(1))>>))))>>)),
               AstAssignment("r", AstFunctionCall("f", <<Num(n)>>))>>)>>

\* outer = fn(k) { return inner(); }; inner = fn() { u = zz; return k; };
\* r = outer(x); q = zz;
ChainSession(x) ==
    <<Source(<<AstAssignment("outer", Fn(<<"k">>,
                  <<AstReturn(Some(AstFunctionCall("inner", <<>>)))>>)),
               AstAssignment("inner", Fn(<<>>,
                  <<AstAssignment("u", Id("zz")), AstReturn(Some(Id("k")))>>)),
               AstAssignment("r", AstFunctionCall("outer", <<Num(x)>>)),
               AstAssignment("q", Id("zz"))>>)>>

\* n = 0; for i = 0; i < k; i = i + 1 { n = n + i; }
ForSumSession(k) ==
    <<Source(<<AstAssignment("n", Num(0)),
               AstFor(Some(AstAssignment("i", Num(0))),
                      Some(Bin("LessThan", Id("i"), Num(k))),
                      Some(AstAssignment("i", Bin("Add", Id("i"), Num(1)))),
                      AstBlock(<<AstAssignment("n", Bin("Add", Id("n"), Id("i")))>>))>>)>>

\* for i = 0; i < k; i = i + 1 { <d nested ifs> continue; }  m = 1;
ForContinueSession(k, d) ==
    <<Source(<<AstFor(Some(AstAssignment("i", Num(0))),
                      Some(Bin("LessThan", Id("i"), Num(k))),
                      Some(AstAssignment("i", Bin("Add", Id("i"), Num(1)))),
                      AstBlock(<<Nest(d, AstContinue)>>)),
               AstAssignment("m", Num(1))>>)>>

\* i = 0; while i < k { if i == 1 { i = i + 1; continue; } print(i); i = i + 1; }
WhileContinueSession(k) ==
    <<Source(<<AstAssignment("i", Num(0)),
               AstWhile(Bin("LessThan", Id("i"), Num(k)),
                  AstBlock(<<AstIf(Bin("Equal", Id("i"), Num(1)),
                                   AstBlock(<<AstAssignment("i", Bin("Add", Id("i"), Num(1))),
                                              AstContinue>>), None),
                             AstFunctionCall("print", <<Id("i")>>),
                             AstAssignment("i", Bin("Add", Id("i"), Num(1)))>>))>>)>>

\* The inner loop of BreakSession: loop / while true / for ;; around `nodes`.
InnerLoop(kind, nodes) ==
    CASE kind = "loop" -> AstLoop(AstBlock(nodes))
      [] kind = "while" -> AstWhile(True, AstBlock(nodes))
      [] kind = "for" ->
            AstFor(None, None, Some(AstAssignment("j", Num(1))), AstBlock(nodes))

\* n = 0; for i = 0; i < k; i = i + 1 {
\*     <inner loop> { <d nested ifs> break; n = 9; }  n = n + 1; }
BreakSession(kind, k, d) ==
    <<Source(<<AstAssignment("n", Num(0)),
               AstFor(Some(AstAssignment("i", Num(0))),
                      Some(Bin("LessThan", Id("i"), Num(k))),
                      Some(AstAssignment("i", Bin("Add", Id("i"), Num(1)))),
                      AstBlock(<<InnerLoop(kind, <<Nest(d, AstBreak),
                                                   AstAssignment("n", Num(9))>>),
                                 AstAssignment("n", Bin("Add", Id("n"), Num(1)))>>))>>)>>

\* f = fn(a) { for i = 0; ; i = i + 1 { while true { loop {
\*     <d nested ifs> return [a]; z = 1; } z = 2; } z = 3; } return 7; };
\* r = f(x); after = 1;       (f(x); when the return carries no value)
ReturnSession(x, d, valued) ==
    <<Source(<<AstAssignment("f", Fn(<<"a">>,
                  <<AstFor(Some(AstAssignment("i", Num(0))), None,
                           Some(AstAssignment("i", Bin("Add", Id("i"), Num(1)))),
                           AstBlock(<<AstWhile(True, AstBlock(
                               <<AstLoop(AstBlock(
                                   <<Nest(d, AstReturn(IF valued THEN Some(Id("a")) ELSE None)),
                                     AstAssignment("z", Num(1))>>)),
                                 AstAssignment("z", Num(2))>>)),
                             AstAssignment("z", Num(3))>>)),
                    AstReturn(Some(Num(7)))>>)),
               IF valued THEN AstAssignment("r", AstFunctionCall("f", <<Num(x)>>))
               ELSE AstFunctionCall("f", <<Num(x)>>),
               AstAssignment("after", Num(1))>>)>>

\* A function registered by the embedding program whose bytecode pushes
\* 1..m and returns all m values, then the source `results();`.
RECURSIVE PushUpTo(_)
PushUpTo(m) == IF m = 0 THEN <<>> ELSE PushUpTo(m - 1) \o <<PushInteger(m)>>

ResultsSession(m) ==
    <<Global("results", scripted_function(PushUpTo(m) \o <<Return(m)>>)),
      Source(<<AstFunctionCall("results", <<>>)>>)>>

\* The definitions the expression and statement sessions start from:
\* id = fn(a) { return a; }; noret = fn() { t = 1; }; v = 3;
Prelude ==
    Source(<<AstAssignment("id", Fn(<<"a">>, <<AstReturn(Some(Id("a")))>>)),
             AstAssignment("noret", Fn(<<>>, <<AstAssignment("t", Num(1))>>)),
             AstAssignment("v", Num(3))>>)

\* One expression of each kind, as a source of its own.
Expressions ==
    {Num(5), AstStringLiteral("s"), True, AstNilLiteral, Id("v"), Id("unbound"),
     AstUnaryOperation("Negate", Num(5)),
     Bin("Add", Num(1), Id("v")), Bin("LessThan", Num(1), Num(2)),
     Bin("Equal", Id("v"), Num(3)), Bin("And", True, False),
     Fn(<<"a">>, <<AstReturn(Some(Id("a")))>>),
     AstFunctionCall("id", <<Num(5)>>),
     AstFunctionCall("string", <<Num(5)>>),
     AstFunctionCall("print", <<Num(5)>>),
     AstFunctionCall("noret", <<>>)}

ExpressionSession(e) == <<Prelude, Source(<<e>>)>>

\* One statement of each kind that is neither an expression statement
\* nor a return, as a source of its own.
Statements ==
    {AstAssignment("x", Num(5)),
     AstAssignment("x", AstFunctionCall("id", <<Num(5)>>)),
     AstIf(True, AstBlock(<<AstAssignment("x", Num(1))>>), None),
     AstIf(False, AstBlock(<<>>), Some(AstBlock(<<AstAssignment("x", Num(1))>>))),
     AstIf(False, AstBlock(<<>>), None),
     AstIf(True, AstBlock(<<Num(5)>>), None),
     AstWhile(False, AstBlock(<<>>)),
     AstWhile(True, AstBlock(<<AstAssignment("x", Num(1)), AstBreak>>)),
     AstWhile(True, AstBlock(<<AstFunctionCall("id", <<Num(5)>>), AstBreak>>)),
     AstLoop(AstBlock(<<AstBreak>>)),
     AstFor(Some(AstAssignment("i", Num(0))), Some(Bin("LessThan", Id("i"), Num(1))),
            Some(AstAssignment("i", Bin("Add", Id("i"), Num(1)))),
            AstBlock(<<AstAssignment("x", Id("i"))>>)),
     AstBreak,
     AstContinue}

StatementSession(st) == <<Prelude, Source(<<st>>)>>

\* Operands of each kind of value; v is bound by the Prelude, and the
\* stdlib binds print and string.
Operands ==
    {Num(1), Num(2), Num(0), Float(3, 2), Float(0, 1), Float(-1, 2),
     AstStringLiteral("s"), AstStringLiteral("t"), True, AstNilLiteral, Id("v"),
     Id("unbound"), Id("print"), Id("string"), Id("id"),
     Fn(<<"a">>, <<AstReturn(Some(Id("a")))>>)}

\* Operands of the logical operators: both booleans and one of each other
\* kind of value.
LogicalOperands ==
    {True, False, AstNilLiteral, Num(0), Num(1), AstStringLiteral("s"), Id("print"), Id("id")}

BinaryKinds == ArithmeticKinds \cup ComparisonKinds \cup {"Equal", "NotEqual", "And", "Or"}
UnaryKinds == {"Negate", "Not"}

\* r = <a> <kind> <b>;
BinarySession(kind, a, b) == <<Prelude, Source(<<AstAssignment("r", Bin(kind, a, b))>>)>>

\* r = <kind> <a>;
UnarySession(kind, a) == <<Prelude, Source(<<AstAssignment("r", AstUnaryOperation(kind, a))>>)>>

\* f = fn() { if !true { } };   f is never called.
NotNestedSession ==
    <<Source(<<AstAssignment("f", Fn(<<>>,
                  <<AstIf(AstUnaryOperation("Not", True), AstBlock(<<>>), None)>>))>>)>>

\* The embedding program binds `not` to fn(a) { return !a; } built from
\* bytecode; then  r = not(<a>);
HostNotSession(a) ==
    <<Global("not", scripted_function(PrologueStores(<<"a">>)
                        \o <<Load("a"), UnaryOperation("Not"), Return(1)>>)),
      Source(<<AstAssignment("r", AstFunctionCall("not", <<a>>))>>)>>

\* Sources in which opcodes follow, in the same layer, an opcode or a nested
\* construct that yields a signal; what follows prints.
\*   Return:   f = fn() { if true { return 1; print(9); } print(9); };
\*             r = f(); done = 1;
\*   Break:    loop { if true { break; print(9); } print(9); } done = 1;
\*   Continue: i = 0; while i < 2 { i = i + 1;
\*                 if true { continue; print(9); } print(9); } done = 1;
\*   Top:      done = 1; return done; print(9);
Dead == AstFunctionCall("print", <<Num(9)>>)
DeadCodeSession(kind) ==
    CASE kind = "Return" ->
            <<Source(<<AstAssignment("f", Fn(<<>>,
                          <<AstIf(True, AstBlock(<<AstReturn(Some(Num(1))), Dead>>), None),
                            Dead>>)),
                       AstAssignment("r", AstFunctionCall("f", <<>>)),
                       AstAssignment("done", Num(1))>>)>>
      [] kind = "Break" ->
            <<Source(<<AstLoop(AstBlock(
                          <<AstIf(True, AstBlock(<<AstBreak, Dead>>), None), Dead>>)),
                       AstAssignment("done", Num(1))>>)>>
      [] kind = "Continue" ->
            <<Source(<<AstAssignment("i", Num(0)),
                       AstWhile(Bin("LessThan", Id("i"), Num(2)),
                          AstBlock(<<AstAssignment("i", Bin("Add", Id("i"), Num(1))),
                                     AstIf(True, AstBlock(<<AstContinue, Dead>>), None),
                                     Dead>>)),
                       AstAssignment("done", Num(1))>>)>>
      [] kind = "Top" ->
            <<Source(<<AstAssignment("done", Num(1)), AstReturn(Some(Id("done"))), Dead>>)>>
DeadCodeKinds == {"Return", "Break", "Continue", "Top"}

\* A loop whose body yields neither Break nor Return:
\*   loop { x = 1; }    or    loop { x = 1; if true { continue; } x = 2; }
\* followed by  done = 1;
ForeverSession(continues) ==
    <<Source(<<AstLoop(AstBlock(
                  IF continues
                  THEN <<AstAssignment("x", Num(1)),
                         AstIf(True, AstBlock(<<AstContinue>>), None),
                         AstAssignment("x", Num(2))>>
                  ELSE <<AstAssignment("x", Num(1))>>)),
               AstAssignment("done", Num(1))>>)>>

\* A condition that is no boolean:
\*   if <c> { print(9); } else { print(9); }      while <c> { print(9); }
\*   for ; <c>; { print(9); }
\* followed by  done = 1;
NonBooleanConditionSession(kind, c) ==
    <<Source(<<CASE kind = "if" -> AstIf(c, AstBlock(<<Dead>>), Some(AstBlock(<<Dead>>)))
                 [] kind = "while" -> AstWhile(c, AstBlock(<<Dead>>))
                 [] kind = "for" -> AstFor(None, Some(c), None, AstBlock(<<Dead>>)),
               AstAssignment("done", Num(1))>>)>>
NonBooleans == {Num(1), Num(0), AstNilLiteral, AstStringLiteral("s"), Id("print")}

\* A call of a value that is no function, at the top level or in a called
\* function:   g = <c>; r = 7 + g(1, 2); done = 1;
NonFunctionCallSession(c, nested) ==
    LET nodes == <<AstAssignment("g", c),
                   AstAssignment("r", Bin("Add", Num(7),
                       AstFunctionCall("g", <<Num(1), Num(2)>>))),
                   AstAssignment("done", Num(1))>>
    IN  IF nested
        THEN <<Source(<<AstAssignment("f", Fn(<<>>, nodes)),
                        AstFunctionCall("f", <<>>)>>)>>
        ELSE <<Source(nodes)>>
NonFunctions == {Num(1), AstNilLiteral, AstStringLiteral("s"), True}

\* A callee that leaves more on its operand stack than it returns, called
\* with more arguments than it declares, under a pending operand:
\*   f = fn(a) { 5; return a; }; r = 7 + f(<x>, 9);
LeftoverSession(x) ==
    <<Source(<<AstAssignment("f", Fn(<<"a">>, <<Num(5), AstReturn(Some(Id("a")))>>)),
               AstAssignment("r", Bin("Add", Num(7),
                   AstFunctionCall("f", <<Num(x), Num(9)>>)))>>)>>

\* A function that prints its argument and returns it:
\*   say = fn(x) { print(x); return x; };
Say == AstAssignment("say", Fn(<<"x">>, <<AstFunctionCall("print", <<Id("x")>>),
                                         AstReturn(Some(Id("x")))>>))
SayIt(x) == AstFunctionCall("say", <<x>>)

\* Operands and arguments whose evaluation prints:
\*   say = ...; pick = fn(a, b) { return a; }; r = pick(say(1), say(2));
\*   say = ...; r = say(1) - say(2);
OrderSession(kind) ==
    IF kind = "call"
    THEN <<Source(<<Say, AstAssignment("pick", Fn(<<"a", "b">>, <<AstReturn(Some(Id("a")))>>)),
                    AstAssignment("r", AstFunctionCall("pick",
                        <<SayIt(Num(1)), SayIt(Num(2))>>))>>)>>
    ELSE <<Source(<<Say, AstAssignment("r",
                        Bin("Subtract", SayIt(Num(1)), SayIt(Num(2))))>>)>>

\* A chain whose conditions print themselves and whose bodies print a
\* letter:
\*   say = ...; if say(<c1>) { print("a"); } elseif say(<c2>) { print("b"); }
\*   elseif say(<c3>) { print("c"); } else { print("d"); }       done = 1;
\* (without the else clause when has_else is false)
Letter(x) == AstBlock(<<AstFunctionCall("print", <<AstStringLiteral(x)>>)>>)
IfChainSession(c, has_else) ==
    <<Source(<<Say,
               parse_if(if_pairs(<<<<SayIt(AstBooleanLiteral(c[1])), Letter("a")>>,
                                   <<SayIt(AstBooleanLiteral(c[2])), Letter("b")>>,
                                   <<SayIt(AstBooleanLiteral(c[3])), Letter("c")>>>>,
                                 IF has_else THEN Some(Letter("d")) ELSE None)),
               AstAssignment("done", Num(1))>>)>>
Conditions == [1..3 -> BOOLEAN]

\* A function whose body breaks or continues outside any loop, called in
\* a loop of the caller:
\*   stop = fn() { <break|continue>; };
\*   i = 0; while i < 2 { stop(); print(i); i = i + 1; }     done = 1;
\*   for i = 0; i < 2; i = i + 1 { stop(); print(i); }       done = 1;
StraySignalSession(signal, kind) ==
    LET stop == AstAssignment("stop", Fn(<<>>, <<IF signal = "Break" THEN AstBreak
                                                 ELSE AstContinue>>))
        called == <<AstFunctionCall("stop", <<>>), AstFunctionCall("print", <<Id("i")>>)>>
        init == AstAssignment("i", Num(0))
        cond == Bin("LessThan", Id("i"), Num(2))
        incr == AstAssignment("i", Bin("Add", Id("i"), Num(1)))
    IN  <<Source(IF kind = "while"
                 THEN <<stop, init, AstWhile(cond, AstBlock(called \o <<incr>>)),
                        AstAssignment("done", Num(1))>>
                 ELSE <<stop, AstFor(Some(init), Some(cond), Some(incr), AstBlock(called)),
                        AstAssignment("done", Num(1))>>)>>

\* A logical operator whose operands print themselves:
\*   say = ...; r = say(<a>) <and|or> say(<b>);
LogicalOrderSession(kind, a, b) ==
    <<Source(<<Say, AstAssignment("r", Bin(kind, SayIt(AstBooleanLiteral(a)),
                                                  SayIt(AstBooleanLiteral(b))))>>)>>

\* A text run through exec, handed over in a variable or as a literal, at
\* the top level or in a called function:
\*   x = 0; s = <text>; r = exec(s); done = 1;
\*   x = 0; r = exec(<text>); done = 1;
\*   f = fn() { x = 0; ...; r = exec(...); return r; }; q = f(); done = 1;
ExecSession(text, in_variable, nested) ==
    LET nodes == <<AstAssignment("x", Num(0))>>
                 \o (IF in_variable
                     THEN <<AstAssignment("s", AstStringLiteral(text)),
                            AstAssignment("r", AstFunctionCall("exec", <<Id("s")>>))>>
                     ELSE <<AstAssignment("r", AstFunctionCall("exec",
                                <<AstStringLiteral(text)>>))>>)
        done == AstAssignment("done", Num(1))
    IN  IF nested
        THEN <<Source(<<AstAssignment("f", Fn(<<>>, nodes \o <<AstReturn(Some(Id("r")))>>)),
                        AstAssignment("q", AstFunctionCall("f", <<>>)), done>>)>>
        ELSE <<Source(nodes \o <<done>>)>>

\* exec of a value that is no string, and with no argument:
\*   r = exec(1);      r = exec();
ExecMisuseSession(args) == <<Source(<<AstAssignment("r", AstFunctionCall("exec", args))>>)>>

\* r = int(<a>);
IntSession(a) == <<Source(<<AstAssignment("r", AstFunctionCall("int", <<a>>))>>)>>

\* Strings handed to int: numerals around i64::MAX and u64::MAX, and texts
\* that are no numerals.
IntStrings ==
    {"0", "7", "007", NatToString(I64_MAX), NatToString(I64_MAX + 1), NatToString(U64_MAX),
     NatToString(U64_MAX + 1), "", "+", "+5", "-1", "1a", "s"}
IntArguments ==
    {AstStringLiteral(s) : s \in IntStrings}
    \cup {Num(1), Float(3, 2), Float(-3, 2), True, False, AstNilLiteral, Id("print")}

\* h = fn() { return print(1); }; r = h();
ReturnNothingSession ==
    <<Source(<<AstAssignment("h", Fn(<<>>,
                  <<AstReturn(Some(AstFunctionCall("print", <<Num(1)>>)))>>)),
               AstAssignment("r", AstFunctionCall("h", <<>>))>>)>>

\* while 1 { }
WhileNonBooleanSession == <<Source(<<AstWhile(Num(1), AstBlock(<<>>))>>)>>

\* print(x, y); print();
PrintSession(x, y) ==
    <<Source(<<AstFunctionCall("print", <<Num(x), Num(y)>>),
               AstFunctionCall("print", <<>>)>>)>>

\* w = x; return w;      (return; when the return carries no value)
TopReturnSession(x, valued) ==
    <<Source(<<AstAssignment("w", Num(x)),
               AstReturn(IF valued THEN Some(Id("w")) ELSE None)>>)>>

\* g = x; f = fn() { return g; }; g = y; r = f();
RebindSession(x, y) ==
    <<Source(<<AstAssignment("g", Num(x)),
               AstAssignment("f", Fn(<<>>, <<AstReturn(Some(Id("g")))>>)),
               AstAssignment("g", Num(y)),
               AstAssignment("r", AstFunctionCall("f", <<>>))>>)>>

\* show = fn() { return secret; };
\* a = fn() { secret = x; return show(); };
\* b = fn() { secret = y; return show(); };
\* ra = a(); rb = b(); rc = show();
CallerLocalsSession(x, y) ==
    <<Source(<<AstAssignment("show", Fn(<<>>, <<AstReturn(Some(Id("secret")))>>)),
               AstAssignment("a", Fn(<<>>,
                  <<AstAssignment("secret", Num(x)),
                    AstReturn(Some(AstFunctionCall("show", <<>>)))>>)),
               AstAssignment("b", Fn(<<>>,
                  <<AstAssignment("secret", Num(y)),
                    AstReturn(Some(AstFunctionCall("show", <<>>)))>>)),
               AstAssignment("ra", AstFunctionCall("a", <<>>)),
               AstAssignment("rb", AstFunctionCall("b", <<>>)),
               AstAssignment("rc", AstFunctionCall("show", <<>>))>>)>>

\* Functions the embedding program builds from bytecode, the translator
\* emitting neither SetKey nor GetKey:
\*   fn(tab, val) { tab[key] = val; }     fn(tab) { return tab[key]; }
\*   fn(val) { t[k] = val through one operand slot; return t[k] through
\*             another; }
HostSet(key) ==
    scripted_function(PrologueStores(<<"tab", "val">>)
                      \o <<Load("tab"), Load("val"), SetKey(key), Return(0)>>)
HostGet(key) ==
    scripted_function(PrologueStores(<<"tab">>) \o <<Load("tab"), GetKey(key), Return(1)>>)
HostBoth ==
    scripted_function(PrologueStores(<<"val">>)
                      \o <<Load("t"), Load("t"), Load("val"), SetKey("k"), GetKey("k"),
                           Return(1)>>)

\* The embedding program makes two tables, t and t2, and the functions.
TablePrelude ==
    <<Global("t", table), Global("t2", table),
      Global("setk", HostSet("k")), Global("setj", HostSet("j")),
      Global("getk", HostGet("k")), Global("both", HostBoth)>>

\* u = t; setk(u, x); r = getk(t); w = y; setk(t, w); q = getk(u);
\* m = getk(t2); b = both(x);
TableSession(x, y) ==
    TablePrelude
    \o <<Source(<<AstAssignment("u", Id("t")),
                  AstFunctionCall("setk", <<Id("u"), Num(x)>>),
                  AstAssignment("r", AstFunctionCall("getk", <<Id("t")>>)),
                  AstAssignment("w", Num(y)),
                  AstFunctionCall("setk", <<Id("t"), Id("w")>>),
                  AstAssignment("q", AstFunctionCall("getk", <<Id("u")>>)),
                  AstAssignment("m", AstFunctionCall("getk", <<Id("t2")>>)),
                  AstAssignment("b", AstFunctionCall("both", <<Num(x)>>))>>)>>

\* w = 1; w2 = 1; setk(t, w); setk(t2, w or w2); setj(t, 1); setj(t2, j);
\* r = t == t2;
TableCompareSession(same, j) ==
    TablePrelude
    \o <<Source(<<AstAssignment("w", Num(1)),
                  AstAssignment("w2", Num(1)),
                  AstFunctionCall("setk", <<Id("t"), Id("w")>>),
                  AstFunctionCall("setk", <<Id("t2"), IF same THEN Id("w") ELSE Id("w2")>>),
                  AstFunctionCall("setj", <<Id("t"), Num(1)>>),
                  AstFunctionCall("setj", <<Id("t2"), Num(j)>>),
                  AstAssignment("r", Bin("Equal", Id("t"), Id("t2")))>>)>>

\* setk(1, 2);  or  r = getk(1);  or  print(t);
TableMisuseSession(node) == TablePrelude \o <<Source(<<node>>)>>
TableMisuses ==
    {AstFunctionCall("setk", <<Num(1), Num(2)>>), AstFunctionCall("getk", <<Num(1)>>),
     AstFunctionCall("print", <<Id("t")>>), AstFunctionCall("string", <<Id("t")>>),
     Bin("Add", Id("t"), Num(1)), Bin("NotEqual", Id("t"), Num(1))}

\* The source of ErrorSession that runs after the failed one: e = v + 1;
AfterError == Source(<<AstAssignment("e", Bin("Add", Id("v"), Num(1)))>>)

\* v = x; v;   then a source that does not parse (`failed` of them), then
\* e = v + 1;
ErrorSession(x, failed) ==
    <<Source(<<AstAssignment("v", Num(x)), Id("v")>>)>>
    \o [i \in 1..failed |-> Unparsable]
    \o <<AfterError>>

\* print(-0.5, 3.0 / 2, 1.0 / 3, 1 / 0.0);
FloatPrintSession ==
    <<Source(<<AstFunctionCall("print",
                  <<Float(-1, 2), Bin("Divide", Float(3, 1), Num(2)),
                    Bin("Divide", Float(1, 1), Num(3)),
                    Bin("Divide", Num(1), Float(0, 1))>>)>>)>>

Sessions ==
    {SubSession(x, y) : x \in Ints, y \in Ints}
    \cup {PickSession(x, y) : x \in Ints, y \in Ints}
    \cup {ShadowSession(y) : y \in Ints}
    \cup {FactSession(n) : n \in 0..(MaxDepth + 1)}
    \cup {ChainSession(x) : x \in Ints}
    \cup {ForSumSession(k) : k \in 0..MaxIter}
    \cup {ForContinueSession(k, d) : k \in 0..MaxIter, d \in 0..MaxNest}
    \cup {WhileContinueSession(k) : k \in 0..(MaxIter + 1)}
    \cup {BreakSession(kind, k, d) :
            kind \in {"loop", "while", "for"}, k \in 1..MaxIter, d \in 0..MaxNest}
    \cup {ReturnSession(x, d, valued) :
            x \in Ints, d \in 0..MaxNest, valued \in BOOLEAN}
    \cup {ResultsSession(m) : m \in 0..(MaxInt + 1)}
    \cup {ExpressionSession(e) : e \in Expressions}
    \cup {StatementSession(st) : st \in Statements}
    \cup {PrintSession(x, y) : x \in Ints, y \in Ints}
    \cup {ReturnNothingSession, WhileNonBooleanSession, FloatPrintSession}
    \cup {TopReturnSession(x, valued) : x \in Ints, valued \in BOOLEAN}
    \cup {RebindSession(x, y) : x \in Ints, y \in Ints}
    \cup {TableSession(x, y) : x \in Ints, y \in Ints}
    \cup {TableCompareSession(same, j) : same \in BOOLEAN, j \in 1..2}
    \cup {TableMisuseSession(node) : node \in TableMisuses}
    \cup {CallerLocalsSession(x, y) : x \in Ints, y \in Ints}
    \cup {ErrorSession(x, failed) : x \in Ints, failed \in 0..MaxIter}
    \cup {<<Unparsable, AfterError>>}
    \cup {BinarySession(kind, a, b) : kind \in BinaryKinds, a \in Operands, b \in Operands}
    \cup {UnarySession(kind, a) : kind \in UnaryKinds, a \in Operands}
    \cup {BinarySession(kind, a, b) :
            kind \in {"And", "Or"}, a \in LogicalOperands, b \in LogicalOperands}
    \cup {HostNotSession(a) : a \in {True, Num(1)}}
    \cup {NotNestedSession}
    \cup {NonBooleanConditionSession(kind, c) :
            kind \in {"if", "while", "for"}, c \in NonBooleans}
    \cup {ForeverSession(continues) : continues \in BOOLEAN}
    \cup {DeadCodeSession(kind) : kind \in DeadCodeKinds}
    \cup {IntSession(a) : a \in IntArguments}
    \cup {ExecSession(text, in_variable, nested) :
            text \in ExecTexts, in_variable \in BOOLEAN, nested \in BOOLEAN}
    \cup {ExecMisuseSession(args) : args \in {<<Num(1)>>, <<>>}}
    \cup {LogicalOrderSession(kind, a, b) :
            kind \in {"And", "Or"}, a \in BOOLEAN, b \in BOOLEAN}
    \cup {StraySignalSession(signal, kind) :
            signal \in {"Break", "Continue"}, kind \in {"while", "for"}}
    \cup {IfChainSession(c, has_else) : c \in Conditions, has_else \in BOOLEAN}
    \cup {OrderSession(kind) : kind \in {"call", "binary"}}
    \cup {LeftoverSession(x) : x \in Ints}
    \cup {NonFunctionCallSession(c, nested) : c \in NonFunctions, nested \in BOOLEAN}

NoSource == [ast |-> AstBlock(<<>>), base |-> 0, pushed_amt |-> 0]

Init ==
    /\ heap = <<>>
    /\ frames = State_new
    /\ ctl = <<>>
    /\ sig = Idle
    /\ status = "idle"
    /\ out = <<>>
    /\ session \in Sessions
    /\ cur = NoSource
    /\ last = [act |-> "State::new", frames |-> State_new, ctl |-> <<>>, sig |-> Idle]

Next ==
    \/ SetGlobal
    \/ ExecuteSource
    \/ ExecuteSourceError
    \/ ExecuteSourceTodo
    \/ ExecuteDone
    \/ LayerEnd
    \/ LayerControlFlow
    \/ ExecStore
    \/ ExecLoad
    \/ ExecSetKey
    \/ ExecGetKey
    \/ ExecPush
    \/ ExecBinaryOperation
    \/ ExecUnaryOperation
    \/ ExecControlFlow
    \/ ExecCall
    \/ CallReturn
    \/ ExecCallWrapped
    \/ CallExec
    \/ ExecReturn
    \/ LockHeld
    \/ ExecIf
    \/ IfCondition
    \/ IfBody
    \/ ExecFor
    \/ ForInitialization
    \/ ForCondition
    \/ ForBody
    \/ ForIncrement
    \/ ExecWhile
    \/ WhileCondition
    \/ WhileBody
    \/ ExecLoop
    \/ LoopBody

Spec == Init /\ [][Next]_vars

\* The shape of the state.
TypeOK ==
    /\ status \in {"idle", "running", "panicked", "blocked"}
    /\ Len(frames) >= 1
    /\ sig.t \in {"Idle", "None", "Return", "Break", "Continue"}
    /\ status = "idle" => ctl = <<>> /\ sig = Idle

(***************************************************************************)
(* What the properties below speak about.                                  *)
(***************************************************************************)
RECURSIVE FunctionDefs(_)
RECURSIVE FunctionDefsOfNodes(_)
\* The function definitions that occur in a syntax tree.
FunctionDefsOfNodes(nodes) ==
    UNION {FunctionDefs(nodes[i]) : i \in DOMAIN nodes}

FunctionDefs(ast) ==
    CASE ast.node = "Block" -> FunctionDefsOfNodes(ast.nodes)
      [] ast.node = "Assignment" -> FunctionDefs(ast.value)
      [] ast.node = "FunctionCall" -> FunctionDefsOfNodes(ast.args)
      [] ast.node = "FunctionDef" -> {ast} \cup FunctionDefs(ast.body)
      [] ast.node = "Return" -> FunctionDefsOfNodes(ast.value)
      [] ast.node = "If" ->
            FunctionDefs(ast.condition) \cup FunctionDefs(ast.body)
                \cup FunctionDefsOfNodes(ast.else_body)
      [] ast.node = "For" ->
            FunctionDefsOfNodes(ast.initialization)
                \cup FunctionDefsOfNodes(ast.condition)
                \cup FunctionDefsOfNodes(ast.increment)
                \cup FunctionDefs(ast.body)
      [] ast.node = "BinaryOperation" ->
            FunctionDefs(ast.left) \cup FunctionDefs(ast.right)
      [] ast.node = "UnaryOperation" -> FunctionDefs(ast.operand)
      [] ast.node = "While" ->
            FunctionDefs(ast.condition) \cup FunctionDefs(ast.body)
      [] ast.node = "Loop" -> FunctionDefs(ast.body)
      [] OTHER -> {}

\* Every function definition of every script the sessions run.
SessionDefs(s) ==
    UNION {FunctionDefs(s[i].ast) : i \in {j \in DOMAIN s : s[j].item = "source"}}
Declared == UNION {SessionDefs(s) : s \in Sessions}

\* The function object a definition evaluates to.
ObjectOf(def) == pushed_value(translate_node(def)[1])

\* The activation record of the innermost call, when the layer on top of
\* the control stack is that call's function body.
InBody ==
    /\ status = "running"
    /\ sig = Idle
    /\ Len(ctl) >= 2
    /\ Top(ctl).kind = "layer"
    /\ ctl[Len(ctl) - 1].kind = "call"
TheCall == ctl[Len(ctl) - 1]

\* The value the i-th argument expression of a call left on the caller's
\* operand stack: the callee sits on top, the arguments below it in the
\* order they were written.
SourceArg(rec, i) ==
    LET ops == rec.h_before[Len(rec.h_before)].operands
    IN  ops[Len(ops) - 1 - rec.n + i]

\* The function `def` was called with as many arguments as it declares
\* parameters, and its prologue has just run.
PrologueDone(def) ==
    /\ InBody
    /\ Object_value(TheCall.function) = ObjectOf(def)
    /\ TheCall.n = Len(def.args)
    /\ Top(ctl).pc = Len(def.args) + 1
    /\ last.act \in {"ExecStore", "ExecCall"}

CurrentLocals == frames[Len(frames)].locals

(***************************************************************************)
(* C1.  When a script function declared with parameters p1 .. pk is called *)
(* with k arguments a1 .. ak written in that order, then once the prologue *)
(* has run the callee's frame binds each p_i to the value of a_i.          *)
(***************************************************************************)
C1_ParametersBound ==
    \A def \in Declared :
        PrologueDone(def) =>
            \A i \in 1..Len(def.args) :
                /\ def.args[i] \in DOMAIN CurrentLocals
                /\ CurrentLocals[def.args[i]] = SourceArg(TheCall, i)

\* A call of a three-parameter function with pairwise different arguments
\* has run its prologue.
C1_Witness ==
    \E def \in Declared :
        /\ PrologueDone(def)
        /\ Len(def.args) = 3
        /\ Object_value(SourceArg(TheCall, 1)) # Object_value(SourceArg(TheCall, 2))
        /\ Object_value(SourceArg(TheCall, 2)) # Object_value(SourceArg(TheCall, 3))
        /\ Object_value(SourceArg(TheCall, 1)) # Object_value(SourceArg(TheCall, 3))

TopN(ops, m) == SubSeq(ops, Len(ops) - m + 1, Len(ops))
OperandsOf(fs) == fs[Len(fs)].operands

\* A call of a scripted function has just completed.
Returned == last.act = "CallReturn" /\ status = "running"

(***************************************************************************)
(* C2.  When a scripted function returns m values, they lie on the         *)
(* caller's operand stack in the same bottom-to-top order in which they    *)
(* lay on the callee's stack, for m >= 2 as well.                          *)
(***************************************************************************)
C2_ReturnOrderPreserved ==
    Returned =>
        LET m == execute(last.sig)
        IN  /\ Len(OperandsOf(frames)) >= m
            /\ TopN(OperandsOf(frames), m) = TopN(OperandsOf(last.frames), m)

(***************************************************************************)
(* C3.  After a function call completes there are as many call frames as   *)
(* before the call, the caller's frame is the top frame again, and no      *)
(* frame's local variables differ from what they were before the call.     *)
(***************************************************************************)
SameFramesAndLocals(before) ==
    /\ Len(frames) = Len(before)
    /\ \A j \in 1..Len(frames) :
          /\ frames[j].locals = before[j].locals
          /\ frames[j].parent = before[j].parent

C3_CallRestoresFrames ==
    /\ Returned => SameFramesAndLocals(Top(last.ctl).h_before)
    /\ last.act = "ExecCallWrapped" /\ status = "running"
            => SameFramesAndLocals(last.frames)

\* A scripted call has completed whose callee bound, in its own frame, a
\* name the caller binds too, to a different value.
C3_Witness ==
    /\ Returned
    /\ \E x \in DOMAIN last.frames[Len(last.frames)].locals :
          /\ x \in DOMAIN CurrentLocals
          /\ Object_value(last.frames[Len(last.frames)].locals[x])
                # Object_value(CurrentLocals[x])

RECURSIVE EnclosedBy(_, _, _)
\* The activation on top of `c` lies inside an activation whose kind is in
\* `targets`, with only activations of the kinds in `through` in between.
EnclosedBy(c, through, targets) ==
    /\ c # <<>>
    /\ \/ Top(c).kind \in targets
       \/ Top(c).kind \in through /\ EnclosedBy(Below(c), through, targets)

Globals == frames[1].locals
Finished == status = "idle" /\ last.act = "ExecuteDone"

(***************************************************************************)
(* C4.  When the body of a for loop that has an increment ends with a      *)
(* Continue signal, the increment is executed next, exactly as when the    *)
(* body ends with no signal.                                               *)
(***************************************************************************)
C4_ContinueRunsIncrement ==
    (/\ last.act = "ForBody"
     /\ last.sig.t \in {"Continue", "None"}
     /\ is_some(Top(last.ctl).op.increment))
        => ctl = Below(last.ctl)
                 \o <<ForRec(Top(last.ctl).op, "incr"),
                      Layer(unwrap(Top(last.ctl).op.increment))>>

(***************************************************************************)
(* C5.  A Break signal raised in a loop body, however many if statements   *)
(* lie between, travels outward one activation at a time without touching  *)
(* the frames, and is consumed by the first loop it meets: that loop ends  *)
(* without a further iteration or increment and hands back None, so the    *)
(* loops around it carry on.  In the scripts with a loop that breaks       *)
(* inside a counting for loop, the outer loop makes all its k rounds.      *)
(***************************************************************************)
C5_BreakExitsInnermostLoop ==
    /\ (/\ status = "running"
         /\ last.sig.t = "Break"
         /\ EnclosedBy(last.ctl, {"layer", "if"}, LoopKinds))
            => /\ frames = last.frames
               /\ ctl = Below(last.ctl)
               /\ sig = IF Top(last.ctl).kind \in LoopKinds THEN CF_None ELSE CF_Break
    /\ \A kind \in {"loop", "while", "for"}, k \in 1..MaxIter, d \in 0..MaxNest :
          Finished /\ cur.ast = BreakSession(kind, k, d)[1].ast
            => /\ Object_value(Globals["n"]) = int(k)
               /\ Object_value(Globals["i"]) = int(k)

\* The inner loop has just consumed a Break that came up through the
\* deepest nesting of ifs, with the outer for loop still active.
C5_Witness ==
    /\ status = "running"
    /\ last.sig.t = "Break"
    /\ Top(last.ctl).kind \in LoopKinds
    /\ sig = CF_None
    /\ \E j \in 1..Len(ctl) : ctl[j].kind = "for"
    /\ cur.ast = BreakSession(Top(last.ctl).kind, MaxIter, MaxNest)[1].ast

Count(s, v) == Cardinality({i \in DOMAIN s : s[i] = v})
SameValues(s, t) ==
    /\ Len(s) = Len(t)
    /\ \A i \in DOMAIN s : Count(s, s[i]) = Count(t, s[i])

Ran(node) == Finished /\ cur.ast = AstBlock(<<node>>)

(***************************************************************************)
(* C7.  Executing the translation of any expression - a literal, an        *)
(* identifier, a unary or binary operation, a function definition, a       *)
(* function call, also of print or of a scripted function without a        *)
(* return - raises the height of the current frame's operand stack by      *)
(* exactly one.                                                            *)
(***************************************************************************)
C7_ExpressionPushesOne ==
    \A e \in Expressions :
        Ran(e) => operand_stack_size(frames) = cur.base + 1

(***************************************************************************)
(* C8.  After a statement that is neither an expression statement nor a    *)
(* return - an assignment, if, for, while, loop, break or continue - the   *)
(* current frame's operand stack is as high as before it, whatever its     *)
(* body contains.                                                          *)
(***************************************************************************)
C8_StatementKeepsHeight ==
    \A st \in Statements :
        Ran(st) => operand_stack_size(frames) = cur.base

\* The opcode the last step dispatched.
LastOp == Top(last.ctl).code[Top(last.ctl).pc]

\* The value bound to `name` in the nearest frame of the current frame's
\* parent chain that binds it (the very cell); a new nil when none does.
Resolve(fs, name) ==
    IF Binders(fs, name) = {} THEN Object_new(fs, nil)
    ELSE fs[ChainOf(fs, Len(fs))[Nearest(Binders(fs, name))]].locals[name]

(***************************************************************************)
(* C9.  Load(name) pushes onto the current frame's operand stack the value *)
(* bound to name in the nearest frame of the parent chain that binds it -  *)
(* the current frame first, then its parent, and so on to the global       *)
(* frame - or nil when no frame of the chain binds it; nothing else        *)
(* changes.                                                                *)
(***************************************************************************)
C9_LoadNearestBinding ==
    last.act = "ExecLoad" =>
        frames = [last.frames EXCEPT ![Len(last.frames)].operands =
                      Append(@, Resolve(last.frames, LastOp.name))]

\* A load, three frames deep, of a name that the current frame and its
\* parent bind to different values.
C9_Witness ==
    /\ last.act = "ExecLoad"
    /\ Len(frames) >= 3
    /\ LastOp.name \in DOMAIN frames[Len(frames)].locals
    /\ LastOp.name \in DOMAIN frames[Len(frames) - 1].locals
    /\ Object_value(frames[Len(frames)].locals[LastOp.name])
          # Object_value(frames[Len(frames) - 1].locals[LastOp.name])

(***************************************************************************)
(* C10.  Store(name) pops exactly one value and changes only the top       *)
(* frame's local map, at name; every other frame is left as it was, also   *)
(* when an ancestor already binds the same name.                           *)
(***************************************************************************)
C10_StoreTopFrameOnly ==
    last.act = "ExecStore" /\ status = "running" =>
        LET pre == last.frames
            t == Len(pre)
            name == LastOp.name
        IN  /\ Len(frames) = t
            /\ \A j \in 1..(t - 1) : frames[j] = pre[j]
            /\ frames[t].parent = pre[t].parent
            /\ frames[t].operands = SubSeq(pre[t].operands, 1, Len(pre[t].operands) - 1)
            /\ DOMAIN frames[t].locals = DOMAIN pre[t].locals \cup {name}
            /\ frames[t].locals[name] = pre[t].operands[Len(pre[t].operands)]
            /\ \A x \in DOMAIN pre[t].locals \ {name} :
                  frames[t].locals[x] = pre[t].locals[x]

\* A store, in a recursive activation three frames deep, of a name that
\* the calling activation binds to another value.
C10_Witness ==
    /\ last.act = "ExecStore"
    /\ status = "running"
    /\ Len(frames) >= 3
    /\ LastOp.name \in DOMAIN frames[Len(frames) - 1].locals
    /\ LastOp.name \notin DOMAIN last.frames[Len(frames)].locals
    /\ Object_value(frames[Len(frames)].locals[LastOp.name])
          # Object_value(frames[Len(frames) - 1].locals[LastOp.name])


(***************************************************************************)
(* C11.  In every reachable state the frame stack holds at least one       *)
(* frame; pop_frame is never invoked while only the global frame is on     *)
(* the stack; and between top-level executions the stack holds exactly     *)
(* the global frame.                                                       *)
(***************************************************************************)
\* The frame stack pop_frame was invoked on by the step taken last.
PoppedFrom ==
    IF last.act = "CallReturn" THEN last.frames
    ELSE call_enter(last.frames, LastOp.n).fs

C11_GlobalFrameStays ==
    /\ Len(frames) >= 1
    /\ Len(last.frames) >= 1
    /\ status = "idle" => Len(frames) = 1
    /\ (last.act \in {"CallReturn", "ExecCallWrapped"} /\ status = "running")
            => Len(PoppedFrom) >= 2

\* Calls were nested and the innermost has returned: its frame was popped
\* off a stack of three or more, into a frame that is not the global one.
C11_Witness ==
    /\ Returned
    /\ Len(last.frames) >= 3
    /\ Len(frames) = Len(last.frames) - 1

(***************************************************************************)
(* C12.  `==` and `!=` complete and push exactly one boolean for every     *)
(* pair of operand values of any kinds, also when the two operand slots    *)
(* reference the same shared cell (both produced by a Load of one          *)
(* variable); they never fail or block.                                    *)
(***************************************************************************)
\* The step taken last executed `==` or `!=` with both operands at hand.
EqualityStep ==
    /\ last.act = "ExecBinaryOperation"
    /\ LocksBoth(LastOp.kind)
    /\ Len(OperandsOf(last.frames)) >= 2

C12_EqualityCompletes ==
    EqualityStep =>
        /\ status = "running"
        /\ OperandsOf(frames)
              = SubSeq(OperandsOf(last.frames), 1, Len(OperandsOf(last.frames)) - 2)
                    \o <<peek(frames)>>
        /\ as_bool(peek(frames))

(***************************************************************************)
(* C13.  For every operator kind (binary + - * / % == != < <= > >= and or, *)
(* unary - and !), executing its opcode on operands for which no fatal     *)
(* error is specified pops exactly its operands (two for binary, one for   *)
(* unary) from the current frame's operand stack and pushes exactly one    *)
(* result.                                                                 *)
(***************************************************************************)
\* The operand stack before the step taken last, and the operands an
\* operator found on it.
OperandsBefore == OperandsOf(last.frames)
RightOperand == OperandsBefore[Len(OperandsBefore)]
LeftOperand == OperandsBefore[Len(OperandsBefore) - 1]

\* The operand combinations for which a fatal error is specified:
\* an integer divided by the integer 0, a comparison of operands that are
\* not both numbers, a logical operator on operands that are not both
\* booleans.
FatalSpecified(kind, l, r) ==
    \/ kind \in {"Divide", "Remainder"} /\ l.k = "Integer" /\ r.k = "Integer" /\ r.i = 0
    \/ kind \in ComparisonKinds /\ ~(l.k \in NumericKinds /\ r.k \in NumericKinds)
    \/ kind \in {"And", "Or"} /\ ~(as_bool(l) /\ as_bool(r))

\* The step taken last replaced the top n operands by one value.
ReplacedByOne(n) ==
    /\ status = "running"
    /\ OperandsOf(frames)
          = SubSeq(OperandsBefore, 1, Len(OperandsBefore) - n) \o <<peek(frames)>>

C13_OperatorPopsPushesOne ==
    /\ (/\ last.act = "ExecBinaryOperation"
         /\ Len(OperandsBefore) >= 2
         /\ ~FatalSpecified(LastOp.kind, LeftOperand, RightOperand))
            => ReplacedByOne(2)
    /\ (last.act = "ExecUnaryOperation" /\ Len(OperandsBefore) >= 1)
            => ReplacedByOne(1)

(***************************************************************************)
(* C14.  For each arithmetic operator + - * / %, every operand combination *)
(* other than number with number (and string with string for +) yields nil *)
(* as the single pushed result rather than a fatal error: booleans, nil,   *)
(* strings with numbers, and function or table values included.            *)
(***************************************************************************)
\* The operator taken last was an arithmetic one, on two operands that are
\* neither both numbers nor, for +, both strings.
ArithmeticMismatch ==
    /\ last.act = "ExecBinaryOperation"
    /\ LastOp.kind \in ArithmeticKinds
    /\ Len(OperandsBefore) >= 2
    /\ ~(LeftOperand.k \in NumericKinds /\ RightOperand.k \in NumericKinds)
    /\ ~(LastOp.kind = "Add" /\ LeftOperand.k = "String" /\ RightOperand.k = "String")

C14_ArithmeticMismatchGivesNil ==
    ArithmeticMismatch => ReplacedByOne(2) /\ peek(frames).k = "Nil"

(***************************************************************************)
(* C15.  The kind of an arithmetic result is determined by the operand     *)
(* kinds: Integer with Integer gives an Integer; Integer with Float,       *)
(* Float with Integer and Float with Float give a Float, the Integer       *)
(* promoted; and for + only, String with String gives the String that is   *)
(* the left operand followed by the right operand.                         *)
(***************************************************************************)
\* The step taken last executed an arithmetic operator on two operands.
ArithmeticStep ==
    /\ last.act = "ExecBinaryOperation"
    /\ LastOp.kind \in ArithmeticKinds
    /\ Len(OperandsBefore) >= 2

C15_ArithmeticResultKind ==
    ArithmeticStep =>
        LET l == LeftOperand
            r == RightOperand
        IN  /\ (l.k = "Integer" /\ r.k = "Integer" /\ status = "running")
                    => ReplacedByOne(2) /\ peek(frames).k = "Integer"
            /\ (l.k \in NumericKinds /\ r.k \in NumericKinds /\ "Float" \in {l.k, r.k})
                    => /\ ReplacedByOne(2)
                       /\ peek(frames).k = "Float"
                       /\ LastOp.kind = "Add"
                            => promote(peek(frames)) = f64_add(promote(l), promote(r))
            /\ (LastOp.kind = "Add" /\ l.k = "String" /\ r.k = "String")
                    => /\ ReplacedByOne(2)
                       /\ peek(frames).k = "String"
                       /\ peek(frames).s = l.s \o r.s

\* An Integer has been added to a Float that is not a whole number.
C15_Witness ==
    /\ ArithmeticStep
    /\ LastOp.kind = "Add"
    /\ LeftOperand.k = "Integer"
    /\ RightOperand.k = "Float"
    /\ RightOperand.den = 2
    /\ status = "running"
    /\ peek(frames).k = "Float"

(***************************************************************************)
(* C16.  Integer division whose right operand is the integer 0 produces a  *)
(* fatal error: no result value is pushed and the execution of the script  *)
(* does not continue.                                                      *)
(***************************************************************************)
\* The step taken last divided an Integer by the Integer 0.
DividedByZero ==
    /\ ArithmeticStep
    /\ LastOp.kind = "Divide"
    /\ LeftOperand.k = "Integer"
    /\ RightOperand.k = "Integer"
    /\ RightOperand.i = 0

C16_IntegerDivisionByZeroFatal ==
    /\ DividedByZero
            => /\ status = "panicked"
               /\ OperandsOf(frames)
                     = SubSeq(OperandsBefore, 1, Len(OperandsBefore) - 2)
               /\ ctl = last.ctl
               /\ sig = last.sig
    /\ status = "panicked" => ~ENABLED Next

\* A non-zero Integer held by a variable has been divided by the literal 0.
C16_Witness ==
    /\ DividedByZero
    /\ LeftOperand.i = 3
    /\ "v" \in DOMAIN Globals
    /\ LeftOperand.cell = Globals["v"].cell

(***************************************************************************)
(* C17.  execute_source returns the number of values the execution left on *)
(* the operand stack it ran on: n when a top-level Return(n) ended the     *)
(* script and 0 otherwise; whenever it returns 0 the operand stack holds   *)
(* no more values than before the call.                                    *)
(***************************************************************************)
\* The number of values the execution just ended has left on the operand
\* stack it ran on.
LeftOnStack == operand_stack_size(frames) - cur.base

C17_ReturnsValuesLeft ==
    Finished =>
        /\ cur.pushed_amt = IF last.sig.t = "Return" THEN last.sig.n ELSE 0
        /\ cur.pushed_amt = LeftOnStack
        /\ cur.pushed_amt = 0 => operand_stack_size(frames) <= cur.base

(***************************************************************************)
(* C18.  When the source fails to parse, execute_source returns an error   *)
(* and the State is exactly as before the call (same frames, operand       *)
(* stacks and local maps), so a later execute_source on the same state     *)
(* behaves as if the failed call had not happened.  In the scripts that    *)
(* run e = v + 1 after v = x; v; the outcome is the same whether or not    *)
(* failed calls lie in between.                                            *)
(***************************************************************************)
C18_ParseErrorLeavesState ==
    /\ last.act = "ExecuteSourceError"
            => /\ frames = last.frames
               /\ ctl = last.ctl
               /\ sig = last.sig
               /\ status = "idle"
    /\ \A x \in Ints :
          (Finished /\ cur.ast = AfterError.ast /\ "v" \in DOMAIN Globals
                /\ Object_value(Globals["v"]) = int(x))
            => /\ Object_value(Globals["e"]) = int(x + 1)
               /\ Len(frames[1].operands) = 1
               /\ frames[1].operands[1] = Globals["v"]
               /\ cur.base = 1
               /\ cur.pushed_amt = 0

\* A source has failed to parse on a State whose global frame holds a
\* value on its operand stack and a binding made by an earlier source.
C18_Witness ==
    /\ last.act = "ExecuteSourceError"
    /\ Len(frames[1].operands) = 1
    /\ "v" \in DOMAIN Globals
    /\ session = <<AfterError>>

(***************************************************************************)
(* C19.  A name that is not bound in a callee's own frame is resolved, at  *)
(* the moment the Load executes, through the frames of the calling chain:  *)
(* the Load pushes the binding of the nearest caller that binds the name.  *)
(* Rebinding the name in an outer frame after the function was defined     *)
(* but before the Load changes the value the body reads, and a body reads  *)
(* the locals of whichever function called it.                             *)
(***************************************************************************)
\* The frames below the top one that bind `name`: the callers, the global
\* frame included.
BindingCallers(fs, name) == {j \in 1..(Len(fs) - 1) : name \in DOMAIN fs[j].locals}

\* The step taken last loaded a name that its own frame does not bind.
FreeLoad ==
    /\ last.act = "ExecLoad"
    /\ LastOp.name \notin DOMAIN last.frames[Len(last.frames)].locals

C19_LoadThroughCallers ==
    /\ (FreeLoad /\ BindingCallers(last.frames, LastOp.name) # {})
            => peek(frames)
                 = last.frames[Farthest(BindingCallers(last.frames, LastOp.name))]
                        .locals[LastOp.name]
    /\ \A x \in Ints, y \in Ints :
          /\ Finished /\ cur.ast = RebindSession(x, y)[1].ast
                => Object_value(Globals["r"]) = int(y)
          /\ Finished /\ cur.ast = CallerLocalsSession(x, y)[1].ast
                => /\ Object_value(Globals["ra"]) = int(x)
                   /\ Object_value(Globals["rb"]) = int(y)
                   /\ Object_value(Globals["rc"]) = nil
                   /\ "secret" \notin DOMAIN Globals

\* Two calls deep, a body has loaded a name that only the frame of its
\* caller binds: neither its own frame nor the global frame does.
C19_Witness ==
    /\ FreeLoad
    /\ Len(last.frames) >= 3
    /\ BindingCallers(last.frames, LastOp.name) = {Len(last.frames) - 1}
    /\ peek(frames) = last.frames[Len(last.frames) - 1].locals[LastOp.name]

(***************************************************************************)
(* C20.  Values are shared cells: after SetKey(k) writes the value v into  *)
(* a table cell, GetKey(k) through any other reference to that cell        *)
(* (another operand-stack slot, a local in any frame, an argument copied   *)
(* into a callee frame) yields v; copying a value between stack, locals    *)
(* and frames never duplicates the cell.                                   *)
(***************************************************************************)
\* The table references held by the frames.
TableReferences ==
    UNION {{fs.operands[j] : j \in {n \in DOMAIN fs.operands : fs.operands[n].k = "Table"}}
           \cup {fs.locals[x] : x \in {n \in DOMAIN fs.locals : fs.locals[n].k = "Table"}} :
           fs \in {frames[i] : i \in DOMAIN frames}}

C20_SharedCells ==
    /\ (last.act = "ExecSetKey" /\ status = "running")
            => /\ LastOp.key \in DOMAIN heap[LeftOperand.cell]
               /\ heap[LeftOperand.cell][LastOp.key] = RightOperand
    /\ (last.act = "ExecGetKey" /\ status = "running"
            /\ LastOp.key \in DOMAIN heap[RightOperand.cell])
            => peek(frames) = heap[RightOperand.cell][LastOp.key]
    /\ \A ref \in TableReferences : ref.cell \in DOMAIN heap
    /\ Cardinality(DOMAIN heap) <= 2
    /\ \A x \in Ints, y \in Ints :
          (Finished /\ Len(cur.ast.nodes) = 8
                /\ cur.ast = TableSession(x, y)[Len(TablePrelude) + 1].ast)
            => /\ Globals["u"] = Globals["t"]
               /\ Object_value(Globals["r"]) = int(x)
               /\ Globals["q"] = Globals["w"]
               /\ Object_value(Globals["m"]) = nil
               /\ Object_value(Globals["b"]) = int(x)
               /\ DOMAIN heap[Globals["t"].cell] = {"k"}
               /\ DOMAIN heap[Globals["t2"].cell] = {}

\* In a callee frame, GetKey through the callee's own local - a copy of
\* the argument, itself a copy of the global u - has read the cell that
\* SetKey wrote through the global t: the very cell the global w holds.
C20_Witness ==
    /\ last.act = "ExecGetKey"
    /\ status = "running"
    /\ Len(frames) = 2
    /\ {"u", "w", "t"} \subseteq DOMAIN Globals
    /\ RightOperand = frames[2].locals["tab"]
    /\ RightOperand = Globals["u"]
    /\ peek(frames) = Globals["w"]

(***************************************************************************)
(* C21.  The translator produces bytecode without failing for every AST    *)
(* the parser can produce: every statement kind, every literal kind        *)
(* including nil, and every unary and binary operator kind the expression  *)
(* parser emits, the prefix `!` included.  So execute_source on a text     *)
(* that parses always gets bytecode and starts to execute it.              *)
(***************************************************************************)
C21_TranslatorInfallible ==
    /\ last.act # "ExecuteSourceTodo"
    /\ last.act = "ExecuteSource"
            => /\ status = "running"
               /\ Top(ctl).code = compile(cur.ast)
               /\ ~translation_panics(Top(ctl).code)

(***************************************************************************)
(* C22.  A native function called as f(v0, ..., v(n-1)) runs on a fresh    *)
(* frame that holds exactly those n arguments with v0 on top, so a native  *)
(* that pops its arguments one by one receives them in source order;       *)
(* print therefore outputs its arguments in source order, consumes all n   *)
(* of them and returns 0 results.                                          *)
(***************************************************************************)
\* A native function has been called and has returned.
NativeCalled == last.act = "ExecCallWrapped" /\ status = "running"

\* The arguments of the call just made, in the order they were written:
\* they lay below the callee on the caller's operand stack.
SourceArgs == SubSeq(OperandsBefore, Len(OperandsBefore) - LastOp.n, Len(OperandsBefore) - 1)

RECURSIVE Concatenated(_)
\* The strings of a sequence of values, one after the other.
Concatenated(values) ==
    IF values = <<>> THEN ""
    ELSE to_string(Head(values)).s \o Concatenated(Tail(values))

C22_NativeArgumentsInSourceOrder ==
    /\ NativeCalled
            => LET entered == call_enter(last.frames, LastOp.n)
                   given == entered.fs[Len(entered.fs)]
               IN  /\ Len(entered.fs) = Len(last.frames) + 1
                   /\ given.locals = EmptyLocals
                   /\ given.parent = Len(last.frames)
                   /\ Len(given.operands) = LastOp.n
                   /\ \A i \in 1..LastOp.n :
                         /\ given.operands[LastOp.n + 1 - i] = SourceArgs[i]
                         /\ pop_n(entered.fs, LastOp.n)[i] = SourceArgs[i]
    /\ (NativeCalled /\ RightOperand.f = "print")
            => /\ OperandsOf(frames)
                    = SubSeq(OperandsBefore, 1, Len(OperandsBefore) - LastOp.n - 1)
               /\ Len(frames) = Len(last.frames)
               /\ LastOp.n > 0 => /\ out # <<>>
                                  /\ out[Len(out)] = Concatenated(SourceArgs)
    /\ \A x \in Ints, y \in Ints :
          (Finished /\ cur.ast = PrintSession(x, y)[1].ast)
            => out = <<NatToString(x) \o NatToString(y)>>

\* print has been called with two arguments that print differently.
C22_Witness ==
    /\ NativeCalled
    /\ RightOperand.f = "print"
    /\ LastOp.n = 2
    /\ to_string(SourceArgs[1]) # to_string(SourceArgs[2])

(***************************************************************************)
(* C23.  The logical operators `and` and `or` push a boolean only when     *)
(* both operands are booleans; if either operand is not a boolean (nil,    *)
(* number, string, function) the operation is a runtime fatal error and    *)
(* no value is coerced to a truth value.                                   *)
(***************************************************************************)
\* A logical operator has just been applied to two operands.
LogicalStep ==
    /\ last.act = "ExecBinaryOperation"
    /\ LastOp.kind \in {"And", "Or"}
    /\ Len(OperandsBefore) >= 2

C23_LogicalNeedsBooleans ==
    LogicalStep =>
        IF LeftOperand.k = "Boolean" /\ RightOperand.k = "Boolean"
        THEN /\ status = "running"
             /\ OperandsOf(frames)
                    = Append(SubSeq(OperandsBefore, 1, Len(OperandsBefore) - 2), peek(frames))
             /\ Object_value(peek(frames))
                    = boolean(IF LastOp.kind = "And" THEN LeftOperand.b /\ RightOperand.b
                              ELSE LeftOperand.b \/ RightOperand.b)
        ELSE /\ status = "panicked"
             /\ OperandsOf(frames) = SubSeq(OperandsBefore, 1, Len(OperandsBefore) - 2)
             /\ ~ENABLED Next

\* `or` has been applied to the boolean false and a value that is not a
\* boolean, and the program has stopped.
C23_Witness ==
    /\ LogicalStep
    /\ LastOp.kind = "Or"
    /\ Object_value(LeftOperand) = boolean(FALSE)
    /\ RightOperand.k \in {"Integer", "String", "Wrapped", "Scripted", "Nil"}
    /\ status = "panicked"

(***************************************************************************)
(* C24.  For every string argument s, int(s) pushes exactly one result:    *)
(* the integer value when s is an unsigned decimal numeral, and nil        *)
(* otherwise; it never raises a fatal error for any string, whatever the   *)
(* magnitude of the numeral.                                               *)
(***************************************************************************)
\* s is an unsigned decimal numeral: one decimal digit or more.
IsNumeral(s) ==
    /\ s # ""
    /\ \A i \in 1..Len(s) : \E d \in 0..9 : Digits[d + 1] = SubSeq(s, i, i)

RECURSIVE NumeralValue(_)
\* The number an unsigned decimal numeral denotes.
NumeralValue(s) ==
    IF s = "" THEN 0
    ELSE NumeralValue(SubSeq(s, 1, Len(s) - 1)) * 10
            + (CHOOSE d \in 0..9 : Digits[d + 1] = SubSeq(s, Len(s), Len(s)))

\* int has just been called with one string argument.
IntOfString ==
    /\ last.act = "ExecCallWrapped"
    /\ RightOperand.k = "Wrapped"
    /\ RightOperand.f = "int"
    /\ LastOp.n = 1
    /\ LeftOperand.k = "String"

C24_IntTotalOnStrings ==
    IntOfString =>
        /\ status = "running"
        /\ OperandsOf(frames)
                = Append(SubSeq(OperandsBefore, 1, Len(OperandsBefore) - 2), peek(frames))
        /\ Object_value(peek(frames))
                = IF IsNumeral(LeftOperand.s) THEN int(NumeralValue(LeftOperand.s)) ELSE nil

(***************************************************************************)
(* C25.  State::new returns a state with exactly one frame (the global     *)
(* frame, with no parent and an empty operand stack) whose local map       *)
(* binds exactly the standard-library names print, string, max, min, int,  *)
(* float, round, abs, exec, exit and input, each to a native function.     *)
(***************************************************************************)
\* State::new has returned and nothing has been done with the state yet.
Constructed == last.act = "State::new"

C25_StateNew ==
    Constructed =>
        /\ Len(frames) = 1
        /\ frames[1].parent = 0
        /\ frames[1].operands = <<>>
        /\ DOMAIN frames[1].locals
                = {"print", "string", "max", "min", "int", "float", "round", "abs",
                   "exec", "exit", "input"}
        /\ \A name \in DOMAIN frames[1].locals :
                /\ frames[1].locals[name].k = "Wrapped"
                /\ frames[1].locals[name].f = name
        /\ \A a \in DOMAIN frames[1].locals, b \in DOMAIN frames[1].locals :
                a # b => frames[1].locals[a].cell # frames[1].locals[b].cell
        /\ heap = <<>>

\* A state fresh from State::new, about to be used by the embedding
\* program.
C25_Witness ==
    /\ Constructed
    /\ status = "idle"
    /\ session # <<>>
    /\ frames = State_new

(***************************************************************************)
(* C26.  In any execution layer, once an opcode yields a Return, Break or  *)
(* Continue signal, no later opcode of that layer's bytecode is executed   *)
(* and the layer returns that same signal (same kind, same n) to its       *)
(* caller.                                                                 *)
(***************************************************************************)
\* The signal the opcode dispatched last yields by itself.
SignalOf(opcode) ==
    CASE opcode.op = "Return" -> CF_Return(opcode.n)
      [] opcode.op = "Break" -> CF_Break
      [] opcode.op = "Continue" -> CF_Continue

\* A layer has just been handed a signal by the construct its last opcode
\* started.
LayerSignalled ==
    /\ last.act = "LayerControlFlow"
    /\ last.sig.t \in {"Return", "Break", "Continue"}

C26_SignalEndsLayer ==
    /\ last.act = "ExecControlFlow"
            => /\ ctl = Below(last.ctl)
               /\ sig = SignalOf(LastOp)
               /\ frames = last.frames
    /\ LayerSignalled
            => /\ ctl = Below(last.ctl)
               /\ sig = last.sig
               /\ frames = last.frames
    /\ \A kind \in DeadCodeKinds :
            cur.ast = DeadCodeSession(kind)[1].ast
                => /\ out = <<>>
                   /\ Finished => /\ "done" \in DOMAIN Globals
                                  /\ cur.pushed_amt = IF kind = "Top" THEN 1 ELSE 0

\* A layer has been handed a Return by a nested construct while opcodes of
\* its bytecode were still to come, and has gone.
C26_Witness ==
    /\ LayerSignalled
    /\ last.sig.t = "Return"
    /\ Top(last.ctl).pc <= Len(Top(last.ctl).code)
    /\ ctl = Below(last.ctl)

(***************************************************************************)
(* C27.  A `loop` layer returns only when its body yields Break (the layer *)
(* then returns none) or Return(n) (the layer then returns Return(n)); a   *)
(* body that ends with no signal or with Continue always starts another    *)
(* iteration, so a loop whose body never yields Break or Return never      *)
(* terminates.                                                             *)
(***************************************************************************)
\* The body of a `loop` has just handed its signal to the loop.
LoopBodyEnded == last.act = "LoopBody"

\* The loop has started its body over.
Reiterated ==
    /\ ctl = Below(last.ctl) \o <<LoopRec(Top(last.ctl).op), Layer(Top(last.ctl).op.body)>>
    /\ sig = Idle

C27_LoopEndsOnBreakOrReturn ==
    /\ LoopBodyEnded
            => /\ frames = last.frames
               /\ status = "running"
               /\ CASE last.sig.t = "Break" -> ctl = Below(last.ctl) /\ sig = CF_None
                    [] last.sig.t = "Return" -> ctl = Below(last.ctl) /\ sig = last.sig
                    [] last.sig.t \in {"None", "Continue"} -> Reiterated
    /\ \A continues \in BOOLEAN :
            cur.ast = ForeverSession(continues)[1].ast
                => /\ status = "running"
                   /\ "done" \notin DOMAIN Globals
                   /\ ENABLED Next

\* A loop body has ended with Continue and the loop has started it again.
C27_Witness ==
    /\ LoopBodyEnded
    /\ last.sig.t = "Continue"
    /\ Reiterated
    /\ cur.ast = ForeverSession(TRUE)[1].ast
    /\ "x" \in DOMAIN Globals

(***************************************************************************)
(* C28.  A for loop runs its initialization exactly once before the first  *)
(* condition check; each iteration then evaluates the condition (an absent *)
(* condition counts as true), runs the body, then the increment, in that   *)
(* order; the loop exits the first time the condition is false without     *)
(* running body or increment again, and a Break exits without running the  *)
(* increment.                                                              *)
(***************************************************************************)
\* The for loop whose step was taken last, and what it runs now.
TheFor == IF last.act = "ExecFor" THEN LastOp ELSE Top(last.ctl).op
ForBase == IF last.act = "ExecFor" THEN Advance(last.ctl) ELSE Below(last.ctl)
ForRuns(phase, code) ==
    /\ ctl = ForBase \o <<ForRec(TheFor, phase), Layer(code)>>
    /\ sig = Idle
ForExits(cf) == ctl = ForBase /\ sig = cf

\* The loop checks its condition, or runs the body at once when it has none.
ForChecks ==
    IF is_some(TheFor.condition) THEN ForRuns("cond", unwrap(TheFor.condition))
    ELSE ForRuns("body", TheFor.body)

C28_ForLoopOrder ==
    /\ last.act = "ExecFor"
            => IF is_some(TheFor.initialization)
               THEN ForRuns("init", unwrap(TheFor.initialization))
               ELSE ForChecks
    /\ last.act = "ForInitialization" => ForChecks
    /\ (last.act = "ForCondition" /\ status = "running")
            => IF RightOperand.b THEN ForRuns("body", TheFor.body) ELSE ForExits(CF_None)
    /\ last.act = "ForBody"
            => CASE last.sig.t = "Break" -> ForExits(CF_None)
                 [] last.sig.t = "Return" -> ForExits(last.sig)
                 [] OTHER -> IF is_some(TheFor.increment)
                             THEN ForRuns("incr", unwrap(TheFor.increment))
                             ELSE ForChecks
    /\ last.act = "ForIncrement" => ForChecks
    /\ \A k \in 0..MaxIter :
            (Finished /\ cur.ast = ForSumSession(k)[1].ast)
                => /\ Object_value(Globals["i"]) = int(k)
                   /\ Object_value(Globals["n"]) = int((k * (k - 1)) \div 2)

(***************************************************************************)
(* C29.  In if, while and for alike, a condition that evaluates to a       *)
(* non-boolean value is a runtime fatal error: the body is not run and     *)
(* the construct does not go on to evaluate the condition again.           *)
(***************************************************************************)
\* An if, while or for has just popped the value of its condition, and it
\* was no boolean.
NonBooleanCondition ==
    /\ last.act \in {"IfCondition", "WhileCondition", "ForCondition"}
    /\ OperandsBefore # <<>>
    /\ RightOperand.k # "Boolean"

C29_NonBooleanConditionFatal ==
    NonBooleanCondition =>
        /\ status = "panicked"
        /\ OperandsOf(frames) = SubSeq(OperandsBefore, 1, Len(OperandsBefore) - 1)
        /\ out = <<>>
        /\ ~ENABLED Next

(***************************************************************************)
(* C30.  When Load(name) completes, the operand stack of every ancestor    *)
(* frame is identical to what it was before the Load (same values in the   *)
(* same order), and no frame's local map has changed; the only change to   *)
(* the state is one extra value on top of the current frame's operand      *)
(* stack.                                                                  *)
(***************************************************************************)
\* A Load has just completed.
Loaded == last.act = "ExecLoad"

C30_LoadOnlyPushes ==
    Loaded =>
        /\ status = "running"
        /\ Len(frames) = Len(last.frames)
        /\ \A i \in 1..(Len(frames) - 1) : frames[i] = last.frames[i]
        /\ frames[Len(frames)].locals = last.frames[Len(frames)].locals
        /\ frames[Len(frames)].parent = last.frames[Len(frames)].parent
        /\ OperandsOf(frames) = Append(OperandsBefore, peek(frames))
        /\ ctl = Advance(last.ctl)
        /\ sig = last.sig

\* A Load in a called function has completed for a name that the frame of
\* the call does not bind and the global frame does, while the caller had
\* values on its own operand stack.
C30_Witness ==
    /\ Loaded
    /\ Len(frames) >= 2
    /\ LastOp.name \notin DOMAIN frames[Len(frames)].locals
    /\ LastOp.name \in DOMAIN Globals
    /\ frames[Len(frames) - 1].operands # <<>>
    /\ peek(frames) = Globals[LastOp.name]

(***************************************************************************)
(* C31.  In every reachable state the parent pointers mirror the frame     *)
(* stack: the global frame has no parent and the frame at stack position   *)
(* i > 0 has the frame at position i-1 as its parent, so a lookup from the *)
(* top frame visits every live frame exactly once from top to bottom and   *)
(* never a frame that has been popped.                                     *)
(***************************************************************************)
\* The frames a lookup from the current frame visits, in order.
LookupPath == ChainOf(frames, Len(frames))

C31_ParentsMirrorStack ==
    /\ frames # <<>>
    /\ frames[1].parent = 0
    /\ \A i \in 2..Len(frames) : frames[i].parent = i - 1
    /\ LookupPath = [j \in 1..Len(frames) |-> Len(frames) + 1 - j]

\* A function called from a called function has just looked up a name
\* that its own frame does not bind, after earlier calls have returned
\* (their frames have been popped, and "ra" holds the result of one).
C31_Witness ==
    /\ status = "running"
    /\ Len(frames) = 3
    /\ "ra" \in DOMAIN Globals
    /\ Loaded
    /\ LastOp.name \notin DOMAIN frames[3].locals
    /\ LastOp.name \in DOMAIN frames[2].locals
    /\ LookupPath = <<3, 2, 1>>

(***************************************************************************)
(* C32.  Call(n) whose callee value (top of stack) is not a function is a  *)
(* runtime fatal error raised before any frame is pushed and before any    *)
(* argument is popped: at the point of failure the frame count is          *)
(* unchanged and only the callee value has been removed from the caller's  *)
(* operand stack.                                                          *)
(***************************************************************************)
\* A Call has just been executed on a callee value that is not a function.
CalledNonFunction ==
    /\ last.act = "ExecCall"
    /\ OperandsBefore # <<>>
    /\ RightOperand.k \notin FunctionKinds

C32_NonFunctionCalleeFatal ==
    CalledNonFunction =>
        /\ status = "panicked"
        /\ ~ENABLED Next
        /\ Len(frames) = Len(last.frames)
        /\ frames = pop(last.frames)
        /\ ctl = last.ctl

\* A Call(2) in a called function has failed on a callee that is not a
\* function; the two arguments and the value below them still lie on the
\* caller's operand stack.
C32_Witness ==
    /\ CalledNonFunction
    /\ status = "panicked"
    /\ LastOp.n = 2
    /\ Len(frames) = 2
    /\ [i \in 1..3 |-> Object_value(OperandsOf(frames)[i])] = <<int(7), int(1), int(2)>>

(***************************************************************************)
(* C33.  After a Call(n) that completes with m return values, the caller's *)
(* operand stack equals its stack before the call with the top n+1 entries *)
(* (arguments and callee) removed and m values added; entries below the    *)
(* arguments are unchanged, and values the callee left on its own operand  *)
(* stack beneath its top m (extra arguments, results of expression         *)
(* statements) never reach the caller.                                     *)
(***************************************************************************)
\* The caller's stack `after` is its stack `before` the Call(n) without the
\* callee and the n arguments, plus the top m values of `callee`.
CallEffect(before, n, m, callee, after) ==
    LET kept == Len(before) - n - 1
    IN  /\ Len(after) = kept + m
        /\ SubSeq(after, 1, kept) = SubSeq(before, 1, kept)
        /\ SameValues(TopN(after, m), TopN(callee, m))

\* What a native function called by the last step left on its frame, and
\* the number of results it reported.
NativeRan ==
    native(RightOperand.f, call_enter(last.frames, LastOp.n).fs, LastOp.n)

C33_CallStackEffect ==
    /\ Returned =>
            /\ Len(frames) = Len(Top(last.ctl).h_before)
            /\ CallEffect(OperandsOf(Top(last.ctl).h_before), Top(last.ctl).n,
                          execute(last.sig), OperandsOf(last.frames),
                          OperandsOf(frames))
    /\ NativeCalled =>
            /\ Len(frames) = Len(last.frames)
            /\ CallEffect(OperandsBefore, LastOp.n, NativeRan.push_amt,
                          OperandsOf(NativeRan.fs), OperandsOf(frames))

\* A call with two arguments has completed with one return value while
\* the callee's operand stack held three values (an extra argument and
\* the result of an expression statement beneath the returned one) and the
\* caller had a value below the arguments.
C33_Witness ==
    /\ Returned
    /\ Top(last.ctl).n = 2
    /\ execute(last.sig) = 1
    /\ Len(OperandsOf(last.frames)) = 3
    /\ Len(OperandsOf(Top(last.ctl).h_before)) = 4
    /\ Len(OperandsOf(frames)) = 2
    /\ Object_value(OperandsOf(frames)[1]) = int(7)

(***************************************************************************)
(* C34.  For a call f(e0, ..., e(k-1)) the argument expressions are        *)
(* evaluated in source order e0 first, and the callee name is looked up    *)
(* only after all arguments have been evaluated; for a binary operation    *)
(* the left operand is evaluated before the right one.                     *)
(***************************************************************************)
\* The source being executed is pick(say(1), say(2)) or say(1) - say(2).
Ordering(kind) == cur.ast = OrderSession(kind)[1].ast

\* The name `name` has just been looked up by the top-level code.
LookedUp(name) == Loaded /\ LastOp.name = name /\ Len(frames) = 1

C34_EvaluationOrder ==
    /\ \A kind \in {"call", "binary"} :
          Ordering(kind) =>
              /\ out \in {<<>>, <<"1">>, <<"1", "2">>}
              /\ Finished => /\ out = <<"1", "2">>
                             /\ Object_value(Globals["r"])
                                    = IF kind = "call" THEN int(1) ELSE int(-1)
    /\ Ordering("call") /\ LookedUp("pick") =>
          /\ out = <<"1", "2">>
          /\ [i \in 1..2 |-> Object_value(OperandsBefore[i])] = <<int(1), int(2)>>
          /\ Object_value(peek(frames)).k = "Scripted"
          /\ CurOp = Call(2)

\* pick(say(1), say(2)) has just looked up pick: both arguments have
\* printed and lie on the operand stack below the function.
C34_Witness ==
    /\ Ordering("call")
    /\ LookedUp("pick")
    /\ operand_stack_size(frames) = 3
    /\ out = <<"1", "2">>

(***************************************************************************)
(* C35.  In an if / elseif ... / else chain at most one branch body        *)
(* executes: the body of the first condition (in source order) that is     *)
(* true, or the else body when none is true and an else is present;        *)
(* conditions that follow the first true condition are not evaluated, and  *)
(* with no true condition and no else nothing runs and the signal is none. *)
(***************************************************************************)
\* What a bool prints as.
Shown(b) == IF b THEN "true" ELSE "false"

\* The lines the chain with conditions c prints: its conditions up to the
\* first true one, and the letter of the one body that runs.
ChainPrints(c, has_else) ==
    CASE c[1] -> <<Shown(c[1]), "a">>
      [] ~c[1] /\ c[2] -> <<Shown(c[1]), Shown(c[2]), "b">>
      [] ~c[1] /\ ~c[2] /\ c[3] -> <<Shown(c[1]), Shown(c[2]), Shown(c[3]), "c">>
      [] OTHER -> <<Shown(c[1]), Shown(c[2]), Shown(c[3])>>
                    \o (IF has_else THEN <<"d">> ELSE <<>>)

\* `s` is `t` or the beginning of `t`.
IsPrefix(s, t) == Len(s) <= Len(t) /\ s = SubSeq(t, 1, Len(s))

\* An if statement without an else body has just found its condition false.
FellThrough ==
    /\ last.act = "IfCondition"
    /\ OperandsBefore # <<>>
    /\ Object_value(RightOperand) = boolean(FALSE)
    /\ ~is_some(Top(last.ctl).op.else_body)

StraySignal ==
    /\ last.act = "CallReturn"
    /\ last.sig.t \in {"Break", "Continue"}

C36_SignalsStayInFunction ==
    /\ StraySignal =>
          /\ status = "running"
          /\ sig = Idle
          /\ ctl = Below(last.ctl)
          /\ Top(ctl).kind = "layer"
          /\ Top(ctl).code[Top(ctl).pc - 1].op = "Call"
          /\ Len(frames) = Len(last.frames) - 1
          /\ CallEffect(OperandsOf(Top(last.ctl).h_before), Top(last.ctl).n, 0,
                        OperandsOf(last.frames), OperandsOf(frames))
    /\ \A signal \in {"Break", "Continue"}, kind \in {"while", "for"} :
          cur.ast = StraySignalSession(signal, kind)[1].ast =>
              /\ IsPrefix(out, <<"0", "1">>)
              /\ Finished => /\ out = <<"0", "1">>
                             /\ Object_value(Globals["i"]) = int(2)
                             /\ "done" \in DOMAIN Globals

\* In the second iteration of a loop of the caller, a called function has
\* just ended with Break; the caller is inside the loop body still.
C36_Witness ==
    /\ StraySignal
    /\ last.sig = CF_Break
    /\ out = <<"0">>
    /\ \E j \in DOMAIN ctl : ctl[j].kind = "while"
    /\ CurOp = Load("i")

(***************************************************************************)
(* C37.  Equality does not promote numbers: for every Integer a and Float  *)
(* b, `a == b` pushes false and `a != b` pushes true whatever their        *)
(* numeric values, even when `a <= b` and `a >= b` both push true.         *)
(***************************************************************************)
\* A binary operator has just been applied to an integer and a float.
MixedNumbers ==
    /\ last.act = "ExecBinaryOperation"
    /\ Len(OperandsBefore) >= 2
    /\ {LeftOperand.k, RightOperand.k} = {"Integer", "Float"}

\* The two operands are the same number.
SameNumber == f64_eq(promote(LeftOperand), promote(RightOperand))

\* The operator has replaced its two operands by the boolean b.
Answered(b) ==
    /\ status = "running"
    /\ Len(OperandsOf(frames)) = Len(OperandsBefore) - 1
    /\ Object_value(peek(frames)) = boolean(b)

C37_EqualityDoesNotPromote ==
    MixedNumbers =>
        /\ LastOp.kind = "Equal" => Answered(FALSE)
        /\ LastOp.kind = "NotEqual" => Answered(TRUE)
        /\ LastOp.kind \in {"LessThanOrEqual", "GreaterThanOrEqual"} /\ SameNumber
                => Answered(TRUE)

\* An integer has been compared with == to a float that is the same
\* number, for which <= and >= both give true.
C37_Witness ==
    /\ MixedNumbers
    /\ LastOp.kind = "Equal"
    /\ LeftOperand.k = "Integer"
    /\ SameNumber
    /\ compare("LessThanOrEqual", LeftOperand, RightOperand) = Pushed(boolean(TRUE))
    /\ compare("GreaterThanOrEqual", LeftOperand, RightOperand) = Pushed(boolean(TRUE))
    /\ Answered(FALSE)

(***************************************************************************)
(* C38.  `and` and `or` do not short-circuit: both operand expressions are *)
(* always fully evaluated (left then right) before the operator is         *)
(* applied, so side effects of the right operand, such as a function call, *)
(* happen even when the left operand alone determines the result.          *)
(***************************************************************************)
\* say(a) and say(b), or say(a) or say(b), is being executed.
Deciding(kind, a, b) == cur.ast = LogicalOrderSession(kind, a, b)[1].ast

C38_NoShortCircuit ==
    \A kind \in {"And", "Or"}, a \in BOOLEAN, b \in BOOLEAN :
        Deciding(kind, a, b) =>
            /\ IsPrefix(out, <<Shown(a), Shown(b)>>)
            /\ status \in {"running", "idle"}
            /\ LogicalStep =>
                  /\ out = <<Shown(a), Shown(b)>>
                  /\ Object_value(LeftOperand) = boolean(a)
                  /\ Object_value(RightOperand) = boolean(b)
            /\ Finished =>
                  /\ out = <<Shown(a), Shown(b)>>
                  /\ Object_value(Globals["r"])
                        = boolean(IF kind = "And" THEN a /\ b ELSE a \/ b)

\* false and say(true) has been decided: the right operand has printed
\* although the left one was false.
C38_Witness ==
    /\ Deciding("And", FALSE, TRUE)
    /\ LogicalStep
    /\ out = <<"false", "true">>
    /\ Object_value(peek(frames)) = boolean(FALSE)

(***************************************************************************)
(* C39.  Source run through exec(s) executes on the frame created for the  *)
(* exec call: every variable it assigns is stored in that frame and is     *)
(* gone when exec returns, so after exec returns the caller's local map    *)
(* and the global frame's local map are the same as before the call; exec  *)
(* always returns exactly one value.                                       *)
(***************************************************************************)
\* A call of exec has just returned: after running the source, or at once
\* for a text that has no parse.
ExecReturned ==
    /\ status = "running"
    /\ \/ last.act = "ExecReturn"
       \/ last.act = "CallExec" /\ Len(ctl) = Len(last.ctl)

\* The frames as they were when that call of exec was dispatched.
BeforeExec == IF last.act = "ExecReturn" THEN Top(last.ctl).h_before ELSE last.frames

\* Frame for frame, the local maps of `fs` are those of `before`.
SameLocals(fs, before) ==
    \A i \in DOMAIN before : i \in DOMAIN fs /\ fs[i].locals = before[i].locals

C39_ExecRunsOnItsOwnFrame ==
    /\ \A j \in DOMAIN ctl :
          ctl[j].kind = "exec" =>
              /\ Len(frames) > Len(ctl[j].h_before)
              /\ SameLocals(frames, ctl[j].h_before)
    /\ last.act = "ExecStore" /\ (\E j \in DOMAIN last.ctl : last.ctl[j].kind = "exec")
          => LastOp.name \in DOMAIN frames[Len(frames)].locals
    /\ ExecReturned =>
          /\ Len(frames) = Len(BeforeExec)
          /\ SameLocals(frames, BeforeExec)
          /\ Len(OperandsOf(frames)) = Len(OperandsOf(BeforeExec)) - 2 + 1
          /\ SubSeq(OperandsOf(frames), 1, Len(OperandsOf(frames)) - 1)
                = SubSeq(OperandsOf(BeforeExec), 1, Len(OperandsOf(BeforeExec)) - 2)
          /\ Top(ctl).kind = "layer"
          /\ Top(ctl).code[Top(ctl).pc - 1] = Call(1)
          /\ sig = Idle

\* exec("x = 1;") has returned to a called function that binds x to 0: the
\* frame of exec had bound x to 1, the caller's x is 0 still and so is not
\* bound in the global frame; the one value returned is nil.
C39_Witness ==
    /\ last.act = "ExecReturn"
    /\ status = "running"
    /\ Len(frames) = 2
    /\ Len(last.frames) = 3
    /\ "x" \in DOMAIN last.frames[3].locals
    /\ Object_value(last.frames[3].locals["x"]) = int(1)
    /\ Object_value(frames[2].locals["x"]) = int(0)
    /\ "x" \notin DOMAIN Globals
    /\ Object_value(peek(frames)) = nil

(***************************************************************************)
(* C40.  exec(s) completes whenever the executed source itself completes,  *)
(* including when that source reads or operates on the very value cell     *)
(* that was passed as s (reachable through the variable bound to it): exec *)
(* does not keep that cell locked while the source runs, so no operation   *)
(* of the executed source blocks forever on it.                            *)
(***************************************************************************)
\* A script that hands `text` to exec is being executed.
Executing(text, in_variable, nested) ==
    cur.ast = ExecSession(text, in_variable, nested)[1].ast

C40_ExecCompletes ==
    \A text \in ExecTexts, in_variable \in BOOLEAN, nested \in BOOLEAN :
        Executing(text, in_variable, nested) =>
            /\ status \in {"running", "idle"}
            /\ last.act # "LockHeld"
            /\ Finished => "done" \in DOMAIN Globals

=============================================================================
